---- MODULE Spec2Model ----
(***************************************************************************)
(* State-machine model of the orchestration runtime:                       *)
(*   - CircuitBreaker            (src/src/mcp/d365_tool.py)                *)
(*   - D365TokenProvider         (src/src/mcp/d365_oauth.py)               *)
(*   - ChatHistoryManager        (src/src/memory/manager.py)               *)
(*   - MCPSessionManager         (src/src/mcp/session.py)                  *)
(*   - RateLimiter + AIAssistant (src/src/security/rate_limiter.py,        *)
(*                                src/src/agent/assistant.py)              *)
(* Every component has its own variables, its own next-state relation and  *)
(* its own specification; an object that a specification does not          *)
(* exercise stays unconstructed.  The program runs on one asyncio event    *)
(* loop: code between two suspension points is one atomic action.          *)
(***************************************************************************)
EXTENDS Integers, Sequences, FiniteSets, TLC

None == "None"

\* None where the other values are numbers: a time, a task, a token
NoTime == -1

NoTask == 0

NoToken == 0

Max(a, b) == IF a >= b THEN a ELSE b

Min(a, b) == IF a <= b THEN a ELSE b

(***************************************************************************)
(* Bounds                                                                  *)
(***************************************************************************)
\* number of tasks that call CircuitBreaker.call concurrently
NumCallers == 2
\* total number of CircuitBreaker.call invocations explored
MaxCalls == 4
\* largest failure_threshold a breaker is constructed with
MaxThreshold == 2
\* last instant of the breaker's clock
MaxCBTime == 3
\* number of tasks that use one D365TokenProvider concurrently
NumTokenTasks == 3
\* total number of get_token / refresh_token calls explored
MaxTokenOps == 3
\* last instant of the token provider's clock
MaxTPTime == 2
\* longest lifetime, in clock units, of a token the credential issues
MaxTokenLife == 2
\* number of distinct chat ids
NumChats == 2
\* number of tasks that use one ChatHistoryManager concurrently
NumHMTasks == 2
\* total number of ChatHistoryManager calls explored
MaxHMOps == 3
\* total number of writes other nodes make to the cache and the cold store
MaxExternalWrites == 2
\* number of distinct (chat_id, mcp_server_name) pairs
NumKeys == 2
\* number of tasks that use one MCPSessionManager concurrently
NumMSTasks == 2
\* total number of get_or_create_session calls explored
MaxMSOps == 3
\* number of user ids that call the rate limiter (besides user_id = None)
NumUsers == 1
\* largest requests_per_minute a limiter is configured with
MaxRpm == 2
\* total number of direct calls of the limiter's methods explored
MaxRLOps == 3
\* number of times the limiter's clock advances
MaxRLTicks == 3
\* largest tokens_used / estimated_tokens of one call
MaxTokens == 1
\* number of requests the assistant processes concurrently
NumRequests == 2
\* total number of process_question / process_question_stream calls explored
MaxReqOps == 2
\* number of distinct messages a thread can hold
NumMessages == 2
\* largest number of messages in one thread
MaxThreadLen == 2
\* number of tasks of one node that save the same chat concurrently
NumWriters == 1
\* total number of save_thread / close persists explored
MaxPMOps == 2
\* last instant of the clock the blobs are stamped with
MaxPMTime == 1
\* number of persists another node makes to the cold store
MaxOtherPersists == 1
\* largest number of messages in a payload read from a store
MaxPayloadMsgs == 2
\* total number of lookups of a stored payload explored
MaxRSOps == 2
\* number of requests the assistant runs concurrently through the agent
NumAgentRequests == 2
\* total number of requests explored on the agent path
MaxAgentOps == 2
\* largest number of text chunks one streaming response yields
MaxTextChunks == 2
\* integer literals and integer field values are 0..MaxInt
MaxInt == 1
\* string literals and string field values are "a", "aa", ... (MaxStr + 1 of them)
MaxStr == 1
\* largest number of edges in a workflow's configuration
MaxEdges == 2
\* edge priorities are 0..MaxPriority
MaxPriority == 1
\* max_retries of the tool is 0..MaxRetries (the default is 3)
MaxRetries == 3
\* largest number of messages in a thread that is summarized
MaxSumLen == 3
\* summarization.max_tokens is 0..MaxSumTokens (a message counts one token)
MaxSumTokens == 2
\* summarization.recent_messages_to_keep is 0..MaxKeep
MaxKeep == 2
\* number of summarize_if_needed calls explored
MaxSumOps == 2
\* values of a form field are 1..MaxFieldValue
MaxFieldValue == 2
\* timestamps written to _last_update are 1..MaxFormTime
MaxFormTime == 2
\* tool calls that can be inside rate_limit_middleware at once
NumToolCalls == 2
\* tool calls made through the middleware in one behaviour
MaxMWOps == 2
\* max_concurrent_requests of a limiter is 1..MaxSlots
MaxSlots == 2

VARIABLES
    \* ---- CircuitBreaker ----
    cbBuilt,            \* __init__ has run
    cbThreshold,        \* _failure_threshold
    cbTimeout,          \* _recovery_timeout
    cbState,            \* _state
    cbFailureCount,     \* _failure_count
    cbLastFailureTime,  \* _last_failure_time
    cbNow,              \* time.time()
    cbPc,               \* position of each task inside call()
    cbAdmit,            \* history: breaker state each running call was admitted in
    cbExit,             \* history: breaker state each call found when func completed
    cbConsec,           \* history: failed calls since the last success or reset
    cbInvoked,          \* history: number of invocations of the wrapped function
    cbCalls,            \* history: number of call() invocations started
    \* ---- D365TokenProvider ----
    tpBuilt,            \* __init__ has run
    tpBuffer,           \* _token_refresh_buffer
    tpCredential,       \* _credential is not None
    tpCachedToken,      \* _cached_token
    tpExpiresAt,        \* _token_expires_at
    tpLockHolder,       \* task holding _refresh_lock, or None
    tpWaiters,          \* tasks queued on _refresh_lock, in arrival order
    tpNow,              \* datetime.now()
    tpPc,               \* position of each task
    tpOp,               \* the method each task is running
    tpAttempt,          \* attempt number of the retry loop of each task
    tpInFlight,         \* tasks awaiting self._credential.get_token(scope)
    tpIssued,           \* history: number of tokens the credential has issued
    tpOps,              \* history: number of provider calls started
    \* ---- ChatHistoryManager ----
    hmPhase,            \* life cycle of the manager: unbuilt, open, closing, closed
    hmPersistEnabled,   \* config.persistence.enabled
    hmAgent,            \* _agent is not None
    hmSessions,         \* _sessions: chat_id -> ChatSession or NoSession
    hmOrder,            \* insertion order of the keys of _sessions
    hmCache,            \* contents of the hot cache: chat_id -> blob or NoBlob
    hmStore,            \* contents of the cold store: chat_id -> blob or NoBlob
    hmLockHolder,       \* task holding _session_lock, or NoTask
    hmWaiters,          \* tasks queued on _session_lock, in arrival order
    hmPc,               \* position of each task
    hmOp,               \* the method each task is running
    hmChat,             \* chat_id each task works on
    hmData,             \* thread_data / blob each task holds
    hmRet,              \* thread returned to each task
    hmThreads,          \* history: number of thread objects created
    hmMade,             \* history: ChatSession objects created per chat_id
    hmReturned,         \* history: threads returned per chat_id
    hmOps,              \* history: number of manager calls started
    hmWrites,           \* history: number of writes made by other nodes
    hmForce,            \* force_persist argument of each save_thread call
    hmPos,              \* close(): index in hmOrder of the session being flushed
    hmSnap,             \* history: sessions not marked persisted when close() began
    hmFlush,            \* history: how far close() got with each session
    \* ---- MCPSessionManager ----
    msPhase,            \* life cycle of the manager: unbuilt, open
    msHasCache,         \* _cache is not None
    msHasStore,         \* _persistence is not None
    msPersist,          \* _config.persist_sessions
    msSessions,         \* _sessions: cache key -> session_id of the held session
    msCache,            \* the cache: cache key -> session_id of the stored session
    msStore,            \* the cold store: cache key -> session_id of the stored session
    msPc,               \* position of each task
    msKey,              \* cache key each task resolves
    msSid,              \* session_id of the session object each task holds
    msIds,              \* history: number of uuid4() session ids drawn
    msOps,              \* history: number of calls started
    \* ---- RateLimiter ----
    rlBuilt,            \* the limiter has been constructed
    rlConfig,           \* config: RateLimitConfig
    rlMinute,           \* _user_minute_state and _global_minute_state
    rlHour,             \* _user_hour_state and _global_hour_state
    rlConcurrent,       \* _concurrent_requests and _global_concurrent
    rlNow,              \* time.time(), in seconds since construction
    rlTicks,            \* history: number of clock advances
    rlOps,              \* history: number of direct method calls
    rlLast,             \* history: the last direct method call and its outcome
    \* ---- AIAssistant request path ----
    reqPc,              \* position of each request
    reqUser,            \* user_id of each request (0 is None)
    reqStream,          \* the request is a process_question_stream call
    reqAcquired,        \* history: acquire_concurrent_slot calls of the request
    reqReleased,        \* history: release_concurrent_slot calls of the request
    reqRecorded,        \* history: increments of the request counter by the request
    reqOps,             \* history: number of requests started
    \* ---- ChatHistoryManager: the persisted blob of one chat_id ----
    pmBuilt,            \* the manager has been constructed
    pmSession,          \* self._sessions[chat_id]: created_at, message_count
    pmThread,           \* the messages of the session's thread object
    pmStore,            \* the blob of the chat_id in the cold store
    pmWriter,           \* history: who wrote the blob the store holds
    pmPc,               \* position of each task
    pmOp,               \* operation of each task: save_thread or close
    pmForce,            \* force_persist of each save_thread call
    pmData,             \* thread_data / merged of each task
    pmNow,              \* datetime.now(timezone.utc)
    pmOps,              \* history: number of operations started
    pmOthers,           \* history: number of persists by another node
    \* ---- ChatHistoryManager: restoring a session from a stored payload ----
    rsBuilt,            \* the manager has been constructed, with an agent
    rsMemory,           \* self._sessions: chat_id -> kind of thread held
    rsPc,               \* position of the get_or_create_thread call
    rsChat,             \* chat_id the call was given
    rsTier,             \* where the payload was read: cache or store
    rsPayload,          \* the payload read
    rsRet,              \* the (chat_id, thread) the call returned
    rsPassed,           \* history: the payload was passed to deserialize_thread
    rsOps,              \* history: number of calls started
    \* ---- AIAssistant: the agent run of a request ----
    arBuilt,            \* the assistant is initialized
    arSessions,         \* the history manager's sessions: chat_id -> thread
    arThreads,          \* number of thread objects created
    arPc,               \* position of each request
    arChat,             \* chat_id of each request
    arModel,            \* model argument of each request
    arStream,           \* the request is a process_question_stream call
    arThread,           \* thread the request resolved
    arTransient,        \* the request has constructed an agent for its model
    arAgent,            \* agent whose run the request awaits
    arAttempt,          \* attempt number of _call_agent
    arChunks,           \* history: done flags of the chunks yielded so far
    arPath,             \* history: how the request ended
    arOps,              \* history: number of requests started
    \* ---- ConditionEvaluator ----
    evBuilt,            \* the evaluator exists
    evPc,               \* idle / returned
    evCondition,        \* condition of the call
    evOutput,           \* output of the call
    evResult,           \* "true", "false", or the exception the call raised
    \* ---- WorkflowManager: routing of a custom workflow ----
    wfBuilt,            \* the manager exists
    wfCreated,          \* the workflow has been created
    wfEdges,            \* _workflow_edges[name]
    wfPc,               \* idle / returned
    wfCurrent,          \* current_agent of the call
    wfOutput,           \* agent_output of the call
    wfNext,             \* agent name returned, "None", or the exception raised
    \* ---- D365MCPTool.call_tool ----
    dtBuilt,            \* the tool is connected
    dtMaxRetries,       \* _max_retries
    dtPc,               \* idle / attempting / refreshing / sleeping / done
    dtAttempt,          \* attempt of the loop in _execute_with_retry
    dtOutcome,          \* "none", "result", or the exception call_tool raised
    dtUnauthorized,     \* history: attempts of this request that returned 401
    dtRefreshes,        \* history: refresh_token calls of this request
    \* ---- ChatHistoryManager.summarize_if_needed ----
    smBuilt,            \* the manager exists
    smConfig,           \* config.summarization and the agent the manager has
    smSession,          \* the ChatSession of the chat, or NoSumSession
    smThreads,          \* number of thread objects created
    smPc,               \* idle / serialize / summary / deserialize / save / returned
    smKept,             \* recent messages the call keeps
    smRet,              \* "none", "True", "False"
    smBefore,           \* history: the session when the call started
    smFailed,           \* history: the step of the call that failed
    smOps,              \* history: number of calls
    \* ---- MCPSessionManager: form context of a session ----
    fcBuilt,            \* the session is in the manager's memory
    fcContext,          \* session.form_context: key -> entry
    fcPc,               \* idle / returned
    fcOp,               \* the call: "none", "update", "clear"
    fcForm,             \* form_name of the call
    fcData,             \* field_data of the call
    fcRet,              \* "none", "True", "False", or the exception raised
    fcBefore,           \* history: form_context when the call started
    \* ---- rate_limit_middleware: tool calls through the limiter ----
    mwLimiter,          \* the rate_limiter argument is not None
    mwPc,               \* call -> idle / tool / returned / rejected / failed
    mwTool,             \* call -> function_name (0 when idle)
    mwRan,              \* call -> next(context) was entered
    mwRecorded,         \* call -> record_request calls made for it
    mwOps               \* calls started

cbVars == <<cbBuilt, cbThreshold, cbTimeout, cbState, cbFailureCount,
            cbLastFailureTime, cbNow, cbPc, cbAdmit, cbExit, cbConsec, cbInvoked,
            cbCalls>>

tpVars == <<tpBuilt, tpBuffer, tpCredential, tpCachedToken, tpExpiresAt,
            tpLockHolder, tpWaiters, tpNow, tpPc, tpOp, tpAttempt, tpInFlight,
            tpIssued, tpOps>>

hmCloseVars == <<hmPos, hmSnap, hmFlush>>

hmVars == <<hmPhase, hmPersistEnabled, hmAgent, hmSessions, hmOrder, hmCache,
            hmStore, hmLockHolder, hmWaiters, hmPc, hmOp, hmChat, hmData, hmRet,
            hmThreads, hmMade, hmReturned, hmOps, hmWrites, hmForce, hmCloseVars>>

msVars == <<msPhase, msHasCache, msHasStore, msPersist, msSessions, msCache,
            msStore, msPc, msKey, msSid, msIds, msOps>>

rlVars == <<rlBuilt, rlConfig, rlMinute, rlHour, rlConcurrent, rlNow, rlTicks,
            rlOps, rlLast>>

reqVars == <<reqPc, reqUser, reqStream, reqAcquired, reqReleased, reqRecorded, reqOps>>

pmVars == <<pmBuilt, pmSession, pmThread, pmStore, pmWriter, pmPc, pmOp, pmForce,
            pmData, pmNow, pmOps, pmOthers>>

rsVars == <<rsBuilt, rsMemory, rsPc, rsChat, rsTier, rsPayload, rsRet, rsPassed, rsOps>>

arVars == <<arBuilt, arSessions, arThreads, arPc, arChat, arModel, arStream, arThread,
            arTransient, arAgent, arAttempt, arChunks, arPath, arOps>>

evVars == <<evBuilt, evPc, evCondition, evOutput, evResult>>

wfVars == <<wfBuilt, wfCreated, wfEdges, wfPc, wfCurrent, wfOutput, wfNext>>

dtVars == <<dtBuilt, dtMaxRetries, dtPc, dtAttempt, dtOutcome, dtUnauthorized, dtRefreshes>>

smVars == <<smBuilt, smConfig, smSession, smThreads, smPc, smKept, smRet, smBefore,
            smFailed, smOps>>

fcVars == <<fcBuilt, fcContext, fcPc, fcOp, fcForm, fcData, fcRet, fcBefore>>

mwVars == <<mwLimiter, mwPc, mwTool, mwRan, mwRecorded, mwOps>>

vars == <<cbVars, tpVars, hmVars, msVars, rlVars, reqVars, pmVars, rsVars, arVars, evVars, wfVars, dtVars, smVars, fcVars, mwVars>>

(***************************************************************************)
(* CircuitBreaker                                                          *)
(***************************************************************************)
Callers == 1..NumCallers

CBStates == {"closed", "open", "half-open"}

CBUnbuilt ==
    /\ cbBuilt = FALSE
    /\ cbThreshold = 0
    /\ cbTimeout = 0
    /\ cbState = "closed"
    /\ cbFailureCount = 0
    /\ cbLastFailureTime = NoTime
    /\ cbNow = 0
    /\ cbPc = [p \in Callers |-> "idle"]
    /\ cbAdmit = [p \in Callers |-> None]
    /\ cbExit = [p \in Callers |-> None]
    /\ cbConsec = 0
    /\ cbInvoked = 0
    /\ cbCalls = 0

\* CircuitBreaker.__init__(failure_threshold, recovery_timeout)
CBInit(th, to) ==
    /\ cbBuilt = FALSE
    /\ cbBuilt' = TRUE
    /\ cbThreshold' = th
    /\ cbTimeout' = to
    /\ cbState' = "closed"
    /\ cbFailureCount' = 0
    /\ cbLastFailureTime' = NoTime
    /\ UNCHANGED <<cbNow, cbPc, cbAdmit, cbExit, cbConsec, cbInvoked, cbCalls>>

\* mutant: the recovery timeout is measured from time 0 instead of from the
\* last failure
CBRecoveryElapsedSinceStart == cbNow > cbTimeout

\* time.time() - self._last_failure_time > self._recovery_timeout
CBRecoveryElapsed == cbNow - cbLastFailureTime > cbTimeout

\* mutant: a rejected call is counted as a failure of the breaker
CBEnterCountsRejection(p) ==
    /\ cbBuilt
    /\ cbPc[p] = "idle"
    /\ cbCalls < MaxCalls
    /\ cbCalls' = cbCalls + 1
    /\ IF cbState = "open"
         THEN IF CBRecoveryElapsed
                THEN /\ cbState' = "half-open"
                     /\ cbPc' = [cbPc EXCEPT ![p] = "running"]
                     /\ cbAdmit' = [cbAdmit EXCEPT ![p] = "half-open"]
                     /\ cbInvoked' = cbInvoked + 1
                     /\ UNCHANGED <<cbFailureCount, cbLastFailureTime>>
                ELSE /\ cbState' = cbState
                     /\ cbPc' = [cbPc EXCEPT ![p] = "rejected"]
                     /\ cbAdmit' = cbAdmit
                     /\ cbInvoked' = cbInvoked
                     /\ cbFailureCount' = cbFailureCount + 1
                     /\ cbLastFailureTime' = cbNow
         ELSE /\ cbState' = cbState
              /\ cbPc' = [cbPc EXCEPT ![p] = "running"]
              /\ cbAdmit' = [cbAdmit EXCEPT ![p] = cbState]
              /\ cbInvoked' = cbInvoked + 1
              /\ UNCHANGED <<cbFailureCount, cbLastFailureTime>>
    /\ UNCHANGED <<cbBuilt, cbThreshold, cbTimeout, cbNow, cbExit, cbConsec>>

\* call(): the first locked block; the breaker's lock is never held across a
\* suspension point, so the block is atomic.  An admitted call goes on to
\* await func(); a refused one raises CircuitBreakerOpen.
CBEnter(p) ==
    /\ cbBuilt
    /\ cbPc[p] = "idle"
    /\ cbCalls < MaxCalls
    /\ cbCalls' = cbCalls + 1
    /\ IF cbState = "open"
         THEN IF CBRecoveryElapsed
                THEN /\ cbState' = "half-open"
                     /\ cbPc' = [cbPc EXCEPT ![p] = "running"]
                     /\ cbAdmit' = [cbAdmit EXCEPT ![p] = "half-open"]
                     /\ cbInvoked' = cbInvoked + 1
                ELSE /\ cbState' = cbState
                     /\ cbPc' = [cbPc EXCEPT ![p] = "rejected"]
                     /\ cbAdmit' = cbAdmit
                     /\ cbInvoked' = cbInvoked
         ELSE /\ cbState' = cbState
              /\ cbPc' = [cbPc EXCEPT ![p] = "running"]
              /\ cbAdmit' = [cbAdmit EXCEPT ![p] = cbState]
              /\ cbInvoked' = cbInvoked + 1
    /\ UNCHANGED <<cbBuilt, cbThreshold, cbTimeout, cbFailureCount,
                   cbLastFailureTime, cbNow, cbExit, cbConsec>>

\* mutant: the success block forgets to reset the failure counter
CBSucceedKeepsCount(p) ==
    /\ cbPc[p] = "running"
    /\ cbState' = "closed"
    /\ cbPc' = [cbPc EXCEPT ![p] = "returned"]
    /\ cbAdmit' = [cbAdmit EXCEPT ![p] = None]
    /\ cbExit' = [cbExit EXCEPT ![p] = cbState]
    /\ cbConsec' = 0
    /\ UNCHANGED <<cbBuilt, cbThreshold, cbTimeout, cbFailureCount,
                   cbLastFailureTime, cbNow, cbInvoked, cbCalls>>

\* call(): func returned; the locked block of the try body
CBSucceed(p) ==
    /\ cbPc[p] = "running"
    /\ cbFailureCount' = 0
    /\ cbState' = "closed"
    /\ cbPc' = [cbPc EXCEPT ![p] = "returned"]
    /\ cbAdmit' = [cbAdmit EXCEPT ![p] = None]
    /\ cbExit' = [cbExit EXCEPT ![p] = cbState]
    /\ cbConsec' = 0
    /\ UNCHANGED <<cbBuilt, cbThreshold, cbTimeout, cbLastFailureTime, cbNow,
                   cbInvoked, cbCalls>>

\* mutant: a failure after the first leaves _last_failure_time as it was
CBFailKeepsFailureTime(p) ==
    /\ cbPc[p] = "running"
    /\ cbFailureCount' = cbFailureCount + 1
    /\ cbLastFailureTime' = IF cbFailureCount = 0 THEN cbNow ELSE cbLastFailureTime
    /\ cbState' = IF cbFailureCount + 1 >= cbThreshold THEN "open" ELSE cbState
    /\ cbPc' = [cbPc EXCEPT ![p] = "raised"]
    /\ cbAdmit' = [cbAdmit EXCEPT ![p] = None]
    /\ cbExit' = [cbExit EXCEPT ![p] = cbState]
    /\ cbConsec' = cbConsec + 1
    /\ UNCHANGED <<cbBuilt, cbThreshold, cbTimeout, cbNow, cbInvoked, cbCalls>>

\* mutant: the breaker opens one failure late (> instead of >=)
CBFailOpensLate(p) ==
    /\ cbPc[p] = "running"
    /\ cbFailureCount' = cbFailureCount + 1
    /\ cbLastFailureTime' = cbNow
    /\ cbState' = IF cbFailureCount + 1 > cbThreshold THEN "open" ELSE cbState
    /\ cbPc' = [cbPc EXCEPT ![p] = "raised"]
    /\ cbAdmit' = [cbAdmit EXCEPT ![p] = None]
    /\ cbExit' = [cbExit EXCEPT ![p] = cbState]
    /\ cbConsec' = cbConsec + 1
    /\ UNCHANGED <<cbBuilt, cbThreshold, cbTimeout, cbNow, cbInvoked, cbCalls>>

\* call(): func raised an Exception; the locked block of the except clause
CBFail(p) ==
    /\ cbPc[p] = "running"
    /\ cbFailureCount' = cbFailureCount + 1
    /\ cbLastFailureTime' = cbNow
    /\ cbState' = IF cbFailureCount + 1 >= cbThreshold THEN "open" ELSE cbState
    /\ cbPc' = [cbPc EXCEPT ![p] = "raised"]
    /\ cbAdmit' = [cbAdmit EXCEPT ![p] = None]
    /\ cbExit' = [cbExit EXCEPT ![p] = cbState]
    /\ cbConsec' = cbConsec + 1
    /\ UNCHANGED <<cbBuilt, cbThreshold, cbTimeout, cbNow, cbInvoked, cbCalls>>

\* call(): the task is cancelled while awaiting func; CancelledError is not an
\* Exception, so neither locked block runs
CBCancel(p) ==
    /\ cbPc[p] = "running"
    /\ cbPc' = [cbPc EXCEPT ![p] = "cancelled"]
    /\ cbAdmit' = [cbAdmit EXCEPT ![p] = None]
    /\ UNCHANGED <<cbBuilt, cbThreshold, cbTimeout, cbState, cbFailureCount,
                   cbLastFailureTime, cbNow, cbExit, cbConsec, cbInvoked, cbCalls>>

\* the caller has received the result or the exception of call()
CBDone(p) ==
    /\ cbPc[p] \in {"returned", "raised", "rejected", "cancelled"}
    /\ cbPc' = [cbPc EXCEPT ![p] = "idle"]
    /\ cbExit' = [cbExit EXCEPT ![p] = None]
    /\ UNCHANGED <<cbBuilt, cbThreshold, cbTimeout, cbState, cbFailureCount,
                   cbLastFailureTime, cbNow, cbAdmit, cbConsec, cbInvoked, cbCalls>>

\* CircuitBreaker.reset()
CBReset ==
    /\ cbBuilt
    /\ cbFailureCount > 0
    /\ cbFailureCount' = 0
    /\ cbState' = "closed"
    /\ cbLastFailureTime' = NoTime
    /\ cbConsec' = 0
    /\ UNCHANGED <<cbBuilt, cbThreshold, cbTimeout, cbNow, cbPc, cbAdmit, cbExit,
                   cbInvoked, cbCalls>>

\* the wall clock advances
CBTick ==
    /\ cbBuilt
    /\ cbNow < MaxCBTime
    /\ cbNow' = cbNow + 1
    /\ UNCHANGED <<cbBuilt, cbThreshold, cbTimeout, cbState, cbFailureCount,
                   cbLastFailureTime, cbPc, cbAdmit, cbExit, cbConsec, cbInvoked,
                   cbCalls>>

(***************************************************************************)
(* Claims about the circuit breaker                                        *)
(***************************************************************************)
\* the calls that are awaiting the wrapped function and were admitted by the
\* breaker in state s
CBRunningAdmittedIn(s) == {p \in Callers : cbPc[p] = "running" /\ cbAdmit[p] = s}

\* C3: once the breaker has gone half-open, a single probe call is admitted:
\* at no time are two calls that found the breaker half-open (or made it so)
\* both executing the wrapped function.
C3_SingleProbe == Cardinality(CBRunningAdmittedIn("half-open")) <= 1

\* C4: the failure that makes failure_threshold consecutive failed calls
\* leaves the breaker open, and a call made while the breaker is open and
\* recovery_timeout has not elapsed raises CircuitBreakerOpen without invoking
\* the wrapped function.
C4_OpensAndRejects ==
    [][ /\ \A p \in Callers :
             (cbPc[p] = "running" /\ cbPc'[p] = "raised" /\ cbConsec' >= cbThreshold)
                 => cbState' = "open"
        /\ \A p \in Callers :
             (cbPc[p] = "idle" /\ cbPc'[p] # "idle" /\ cbState = "open"
                 /\ ~CBRecoveryElapsed)
                 => (cbPc'[p] = "rejected" /\ cbInvoked' = cbInvoked /\ cbState' = "open")
      ]_vars

\* C4 witness: after failure_threshold consecutive failures a call has been
\* refused by the open breaker
C4_Witness ==
    \E p \in Callers :
        /\ cbPc[p] = "rejected"
        /\ cbState = "open"
        /\ cbConsec >= cbThreshold
        /\ cbThreshold = MaxThreshold

\* C5: a call that succeeds while the breaker is half-open leaves the breaker
\* closed with failure_count = 0.
C5_HalfOpenSuccessCloses ==
    [][ \A p \in Callers :
            (cbPc[p] = "running" /\ cbPc'[p] = "returned" /\ cbState = "half-open")
                => (cbState' = "closed" /\ cbFailureCount' = 0)
      ]_vars

\* C5 witness: a call has just returned that found the breaker half-open
C5_Witness ==
    \E p \in Callers :
        /\ cbPc[p] = "returned"
        /\ cbExit[p] = "half-open"
        /\ cbState = "closed"
        /\ cbFailureCount = 0

\* C28: an open breaker leaves open only through recovery-timeout expiry: a
\* call admitted while the breaker was closed that completes successfully
\* after the breaker has opened does not set state to closed and does not
\* reset failure_count.  As a step property of call(): a step of a call taken
\* while the breaker is open leaves it open, or half-open when the recovery
\* timeout has elapsed, and a call that returns then leaves failure_count.
C28_OpenLeftOnlyByTimeout ==
    [][ \A p \in Callers :
            (cbState = "open" /\ cbPc[p] # cbPc'[p])
                => /\ \/ cbState' = "open"
                      \/ cbState' = "half-open" /\ CBRecoveryElapsed
                   /\ cbPc'[p] = "returned" => cbFailureCount' = cbFailureCount
      ]_vars

\* C30: a call that fails while the breaker is half-open returns it to open
\* and sets last_failure_time to the time of that failure, for every
\* failure_threshold >= 1.
C30_HalfOpenFailureReopens ==
    [][ \A p \in Callers :
            (cbPc[p] = "running" /\ cbPc'[p] = "raised" /\ cbState = "half-open")
                => (cbState' = "open" /\ cbLastFailureTime' = cbNow)
      ]_vars

\* C30 witness: with the largest threshold, a call that found the breaker
\* half-open has just failed, the breaker is open again and the failure time
\* is later than that of the failure that opened it
C30_Witness ==
    \E p \in Callers :
        /\ cbPc[p] = "raised"
        /\ cbExit[p] = "half-open"
        /\ cbState = "open"
        /\ cbThreshold = MaxThreshold
        /\ cbLastFailureTime = cbNow
        /\ cbNow > cbTimeout

\* C31: an open breaker rejects every call made before recovery_timeout has
\* elapsed since last_failure_time, and admits the next call made after it
\* has elapsed (the call runs the wrapped function and the breaker goes
\* half-open).
C31_RecoveryBoundary ==
    [][ \A p \in Callers :
            (cbPc[p] = "idle" /\ cbPc'[p] # "idle" /\ cbState = "open")
                => /\ cbNow - cbLastFailureTime < cbTimeout
                        => (cbPc'[p] = "rejected" /\ cbState' = "open"
                              /\ cbInvoked' = cbInvoked)
                   /\ cbNow - cbLastFailureTime > cbTimeout
                        => (cbPc'[p] = "running" /\ cbState' = "half-open"
                              /\ cbInvoked' = cbInvoked + 1)
      ]_vars

\* C31 witness: a call was rejected by the open breaker, and the first call
\* made one time unit after the recovery timeout is running as the probe;
\* the failure that opened the breaker was not at time 0
C31_Witness ==
    \E p, q \in Callers :
        /\ cbPc[q] = "rejected"
        /\ cbPc[p] = "running" /\ cbAdmit[p] = "half-open"
        /\ cbState = "half-open"
        /\ cbLastFailureTime > 0
        /\ cbNow - cbLastFailureTime = cbTimeout + 1

\* C39: a call rejected with CircuitBreakerOpen changes neither
\* failure_count nor last_failure_time, so repeated calls against an open
\* breaker do not postpone its recovery.
C39_RejectionLeavesCounters ==
    [][ \A p \in Callers :
            (cbPc[p] = "idle" /\ cbPc'[p] = "rejected")
                => /\ cbFailureCount' = cbFailureCount
                   /\ cbLastFailureTime' = cbLastFailureTime
                   /\ cbState' = "open"
      ]_vars

\* C39 witness: a call was rejected at a time later than the last failure,
\* and the breaker still holds the time of that failure
C39_Witness ==
    \E p \in Callers :
        /\ cbPc[p] = "rejected"
        /\ cbState = "open"
        /\ cbFailureCount >= cbThreshold
        /\ cbLastFailureTime # NoTime
        /\ cbNow > cbLastFailureTime

NextCB ==
    \/ \E th \in 1..MaxThreshold : CBInit(th, 1) /\ UNCHANGED <<tpVars, hmVars, msVars, rlVars, reqVars, pmVars, rsVars, arVars, evVars, wfVars, dtVars, smVars, fcVars, mwVars>>
    \/ \E p \in Callers : CBEnter(p) /\ UNCHANGED <<tpVars, hmVars, msVars, rlVars, reqVars, pmVars, rsVars, arVars, evVars, wfVars, dtVars, smVars, fcVars, mwVars>>
    \/ \E p \in Callers : CBSucceed(p) /\ UNCHANGED <<tpVars, hmVars, msVars, rlVars, reqVars, pmVars, rsVars, arVars, evVars, wfVars, dtVars, smVars, fcVars, mwVars>>
    \/ \E p \in Callers : CBFail(p) /\ UNCHANGED <<tpVars, hmVars, msVars, rlVars, reqVars, pmVars, rsVars, arVars, evVars, wfVars, dtVars, smVars, fcVars, mwVars>>
    \/ \E p \in Callers : CBCancel(p) /\ UNCHANGED <<tpVars, hmVars, msVars, rlVars, reqVars, pmVars, rsVars, arVars, evVars, wfVars, dtVars, smVars, fcVars, mwVars>>
    \/ \E p \in Callers : CBDone(p) /\ UNCHANGED <<tpVars, hmVars, msVars, rlVars, reqVars, pmVars, rsVars, arVars, evVars, wfVars, dtVars, smVars, fcVars, mwVars>>
    \/ CBReset /\ UNCHANGED <<tpVars, hmVars, msVars, rlVars, reqVars, pmVars, rsVars, arVars, evVars, wfVars, dtVars, smVars, fcVars, mwVars>>
    \/ CBTick /\ UNCHANGED <<tpVars, hmVars, msVars, rlVars, reqVars, pmVars, rsVars, arVars, evVars, wfVars, dtVars, smVars, fcVars, mwVars>>

(***************************************************************************)
(* D365TokenProvider                                                       *)
(***************************************************************************)
TokenTasks == 1..NumTokenTasks

\* stop_after_attempt(3) / max_attempts = 3
MaxAttempts == 3

TPUnbuilt ==
    /\ tpBuilt = FALSE
    /\ tpBuffer = 0
    /\ tpCredential = FALSE
    /\ tpCachedToken = NoToken
    /\ tpExpiresAt = NoTime
    /\ tpLockHolder = NoTask
    /\ tpWaiters = <<>>
    /\ tpNow = 0
    /\ tpPc = [p \in TokenTasks |-> "idle"]
    /\ tpOp = [p \in TokenTasks |-> None]
    /\ tpAttempt = [p \in TokenTasks |-> 0]
    /\ tpInFlight = {}
    /\ tpIssued = 0
    /\ tpOps = 0

\* D365TokenProvider.__init__(token_refresh_buffer_minutes)
TPInit(buffer) ==
    /\ tpBuilt = FALSE
    /\ tpBuilt' = TRUE
    /\ tpBuffer' = buffer
    /\ tpCredential' = FALSE
    /\ tpCachedToken' = NoToken
    /\ tpExpiresAt' = NoTime
    /\ tpLockHolder' = NoTask
    /\ UNCHANGED <<tpWaiters, tpNow, tpPc, tpOp, tpAttempt, tpInFlight, tpIssued, tpOps>>

\* _is_token_valid()
IsTokenValid ==
    IF tpCachedToken = NoToken \/ tpExpiresAt = NoTime
      THEN FALSE
      ELSE tpNow < tpExpiresAt - tpBuffer

\* the body run by a task that has just obtained _refresh_lock, up to its
\* first suspension point: get_token re-checks the cache, refresh_token
\* clears it; both then create the credential if needed and start the first
\* attempt of _acquire_token_with_retry
TPLockedBody(p, op) ==
    IF op = "get" /\ IsTokenValid
      THEN /\ tpPc' = [tpPc EXCEPT ![p] = "returned"]
           /\ tpLockHolder' = NoTask
           /\ UNCHANGED <<tpCredential, tpCachedToken, tpExpiresAt, tpAttempt, tpInFlight>>
      ELSE /\ tpPc' = [tpPc EXCEPT ![p] = "acquiring"]
           /\ tpLockHolder' = p
           /\ tpCredential' = TRUE
           /\ tpCachedToken' = IF op = "refresh" THEN NoToken ELSE tpCachedToken
           /\ tpExpiresAt' = IF op = "refresh" THEN NoTime ELSE tpExpiresAt
           /\ tpAttempt' = [tpAttempt EXCEPT ![p] = 1]
           /\ tpInFlight' = tpInFlight \cup {p}

\* asyncio.Lock.acquire() takes the lock at once only when it is free and
\* nobody is queued
TPLockFree == tpLockHolder = NoTask /\ tpWaiters = <<>>

\* mutant: get_token starts the acquisition without taking _refresh_lock
TPGetTokenUnlocked(p) ==
    /\ tpBuilt
    /\ tpPc[p] = "idle"
    /\ tpOps < MaxTokenOps
    /\ tpOps' = tpOps + 1
    /\ tpOp' = [tpOp EXCEPT ![p] = "get"]
    /\ IF IsTokenValid
         THEN /\ tpPc' = [tpPc EXCEPT ![p] = "returned"]
              /\ UNCHANGED <<tpCredential, tpCachedToken, tpExpiresAt, tpLockHolder,
                             tpWaiters, tpAttempt, tpInFlight>>
         ELSE /\ tpPc' = [tpPc EXCEPT ![p] = "acquiring"]
              /\ tpCredential' = TRUE
              /\ tpAttempt' = [tpAttempt EXCEPT ![p] = 1]
              /\ tpInFlight' = tpInFlight \cup {p}
              /\ UNCHANGED <<tpCachedToken, tpExpiresAt, tpLockHolder, tpWaiters>>
    /\ UNCHANGED <<tpBuilt, tpBuffer, tpNow, tpIssued>>

\* get_token(): the unlocked quick check, then async with self._refresh_lock
TPGetToken(p) ==
    /\ tpBuilt
    /\ tpPc[p] = "idle"
    /\ tpOps < MaxTokenOps
    /\ tpOps' = tpOps + 1
    /\ tpOp' = [tpOp EXCEPT ![p] = "get"]
    /\ IF IsTokenValid
         THEN /\ tpPc' = [tpPc EXCEPT ![p] = "returned"]
              /\ UNCHANGED <<tpCredential, tpCachedToken, tpExpiresAt, tpLockHolder,
                             tpWaiters, tpAttempt, tpInFlight>>
         ELSE IF TPLockFree
                THEN TPLockedBody(p, "get") /\ UNCHANGED tpWaiters
                ELSE /\ tpPc' = [tpPc EXCEPT ![p] = "waiting"]
                     /\ tpWaiters' = Append(tpWaiters, p)
                     /\ UNCHANGED <<tpCredential, tpCachedToken, tpExpiresAt,
                                    tpLockHolder, tpAttempt, tpInFlight>>
    /\ UNCHANGED <<tpBuilt, tpBuffer, tpNow, tpIssued>>

\* refresh_token(): async with self._refresh_lock
TPRefreshToken(p) ==
    /\ tpBuilt
    /\ tpPc[p] = "idle"
    /\ tpOps < MaxTokenOps
    /\ tpOps' = tpOps + 1
    /\ tpOp' = [tpOp EXCEPT ![p] = "refresh"]
    /\ IF TPLockFree
         THEN TPLockedBody(p, "refresh") /\ UNCHANGED tpWaiters
         ELSE /\ tpPc' = [tpPc EXCEPT ![p] = "waiting"]
              /\ tpWaiters' = Append(tpWaiters, p)
              /\ UNCHANGED <<tpCredential, tpCachedToken, tpExpiresAt,
                             tpLockHolder, tpAttempt, tpInFlight>>
    /\ UNCHANGED <<tpBuilt, tpBuffer, tpNow, tpIssued>>

\* the first queued task is woken by the release of the lock and enters
TPWake(p) ==
    /\ tpLockHolder = NoTask
    /\ tpWaiters # <<>>
    /\ Head(tpWaiters) = p
    /\ tpWaiters' = Tail(tpWaiters)
    /\ TPLockedBody(p, tpOp[p])
    /\ UNCHANGED <<tpBuilt, tpBuffer, tpNow, tpOp, tpIssued, tpOps>>

\* self._credential.get_token(scope) returns a token living `life` units:
\* the token is cached and the lock released on the way out
TPAcquired(p, life) ==
    /\ tpPc[p] = "acquiring"
    /\ p \in tpInFlight
    /\ tpCredential
    /\ tpIssued' = tpIssued + 1
    /\ tpCachedToken' = tpIssued + 1
    /\ tpExpiresAt' = tpNow + life
    /\ tpInFlight' = tpInFlight \ {p}
    /\ tpLockHolder' = IF tpLockHolder = p THEN NoTask ELSE tpLockHolder
    /\ tpPc' = [tpPc EXCEPT ![p] = "returned"]
    /\ UNCHANGED <<tpBuilt, tpBuffer, tpCredential, tpWaiters, tpNow, tpOp,
                   tpAttempt, tpOps>>

\* the attempt raises ConnectionError / TimeoutError / OSError: back off and
\* retry, or re-raise after the third attempt
TPTransientError(p) ==
    /\ tpPc[p] = "acquiring"
    /\ p \in tpInFlight
    /\ tpInFlight' = tpInFlight \ {p}
    /\ IF tpAttempt[p] < MaxAttempts
         THEN /\ tpPc' = [tpPc EXCEPT ![p] = "backoff"]
              /\ tpLockHolder' = tpLockHolder
         ELSE /\ tpPc' = [tpPc EXCEPT ![p] = "raised"]
              /\ tpLockHolder' = IF tpLockHolder = p THEN NoTask ELSE tpLockHolder
    /\ UNCHANGED <<tpBuilt, tpBuffer, tpCredential, tpCachedToken, tpExpiresAt,
                   tpWaiters, tpNow, tpOp, tpAttempt, tpIssued, tpOps>>

\* the backoff sleep ends and the next attempt starts; a credential that
\* close() has dropped in the meantime makes the attempt raise AttributeError
TPRetry(p) ==
    /\ tpPc[p] = "backoff"
    /\ tpAttempt' = [tpAttempt EXCEPT ![p] = tpAttempt[p] + 1]
    /\ IF tpCredential
         THEN /\ tpPc' = [tpPc EXCEPT ![p] = "acquiring"]
              /\ tpInFlight' = tpInFlight \cup {p}
              /\ tpLockHolder' = tpLockHolder
         ELSE /\ tpPc' = [tpPc EXCEPT ![p] = "raised"]
              /\ tpInFlight' = tpInFlight
              /\ tpLockHolder' = IF tpLockHolder = p THEN NoTask ELSE tpLockHolder
    /\ UNCHANGED <<tpBuilt, tpBuffer, tpCredential, tpCachedToken, tpExpiresAt,
                   tpWaiters, tpNow, tpOp, tpIssued, tpOps>>

\* the attempt raises any other exception: logged and re-raised
TPFatalError(p) ==
    /\ tpPc[p] = "acquiring"
    /\ p \in tpInFlight
    /\ tpInFlight' = tpInFlight \ {p}
    /\ tpLockHolder' = IF tpLockHolder = p THEN NoTask ELSE tpLockHolder
    /\ tpPc' = [tpPc EXCEPT ![p] = "raised"]
    /\ UNCHANGED <<tpBuilt, tpBuffer, tpCredential, tpCachedToken, tpExpiresAt,
                   tpWaiters, tpNow, tpOp, tpAttempt, tpIssued, tpOps>>

\* the task is cancelled at a suspension point: queued on the lock, awaiting
\* the credential or sleeping in the backoff
TPCancel(p) ==
    /\ tpPc[p] \in {"waiting", "acquiring", "backoff"}
    /\ tpPc' = [tpPc EXCEPT ![p] = "cancelled"]
    /\ tpWaiters' = SelectSeq(tpWaiters, LAMBDA q : q # p)
    /\ tpInFlight' = tpInFlight \ {p}
    /\ tpLockHolder' = IF tpLockHolder = p THEN NoTask ELSE tpLockHolder
    /\ UNCHANGED <<tpBuilt, tpBuffer, tpCredential, tpCachedToken, tpExpiresAt,
                   tpNow, tpOp, tpAttempt, tpIssued, tpOps>>

\* the caller has received the token or the exception
TPDone(p) ==
    /\ tpPc[p] \in {"returned", "raised", "cancelled"}
    /\ tpPc' = [tpPc EXCEPT ![p] = "idle"]
    /\ tpOp' = [tpOp EXCEPT ![p] = None]
    /\ tpAttempt' = [tpAttempt EXCEPT ![p] = 0]
    /\ UNCHANGED <<tpBuilt, tpBuffer, tpCredential, tpCachedToken, tpExpiresAt,
                   tpLockHolder, tpWaiters, tpNow, tpInFlight, tpIssued, tpOps>>

\* close(): drops the credential and the cached token, without the lock
TPClose ==
    /\ tpBuilt
    /\ tpCredential
    /\ tpCredential' = FALSE
    /\ tpCachedToken' = NoToken
    /\ tpExpiresAt' = NoTime
    /\ UNCHANGED <<tpBuilt, tpBuffer, tpLockHolder, tpWaiters, tpNow, tpPc, tpOp,
                   tpAttempt, tpInFlight, tpIssued, tpOps>>

\* the wall clock advances
TPTick ==
    /\ tpBuilt
    /\ tpNow < MaxTPTime
    /\ tpNow' = tpNow + 1
    /\ UNCHANGED <<tpBuilt, tpBuffer, tpCredential, tpCachedToken, tpExpiresAt,
                   tpLockHolder, tpWaiters, tpPc, tpOp, tpAttempt, tpInFlight,
                   tpIssued, tpOps>>

\* C2: at most one call of the credential's get_token is in flight at any
\* time, whatever the interleaving of get_token() and refresh_token() calls.
C2_SingleFlight == Cardinality(tpInFlight) <= 1

\* C2 witness: one acquisition is in flight while a get_token() call and a
\* refresh_token() call are both held back on the lock
C2_Witness ==
    /\ Cardinality(tpInFlight) = 1
    /\ \E p, q \in TokenTasks :
          /\ tpPc[p] = "waiting" /\ tpOp[p] = "get"
          /\ tpPc[q] = "waiting" /\ tpOp[q] = "refresh"

NextTP ==
    \/ \E b \in 0..1 : TPInit(b) /\ UNCHANGED <<cbVars, hmVars, msVars, rlVars, reqVars, pmVars, rsVars, arVars, evVars, wfVars, dtVars, smVars, fcVars, mwVars>>
    \/ \E p \in TokenTasks : TPGetToken(p) /\ UNCHANGED <<cbVars, hmVars, msVars, rlVars, reqVars, pmVars, rsVars, arVars, evVars, wfVars, dtVars, smVars, fcVars, mwVars>>
    \/ \E p \in TokenTasks : TPRefreshToken(p) /\ UNCHANGED <<cbVars, hmVars, msVars, rlVars, reqVars, pmVars, rsVars, arVars, evVars, wfVars, dtVars, smVars, fcVars, mwVars>>
    \/ \E p \in TokenTasks : TPWake(p) /\ UNCHANGED <<cbVars, hmVars, msVars, rlVars, reqVars, pmVars, rsVars, arVars, evVars, wfVars, dtVars, smVars, fcVars, mwVars>>
    \/ \E p \in TokenTasks, life \in 1..MaxTokenLife : TPAcquired(p, life) /\ UNCHANGED <<cbVars, hmVars, msVars, rlVars, reqVars, pmVars, rsVars, arVars, evVars, wfVars, dtVars, smVars, fcVars, mwVars>>
    \/ \E p \in TokenTasks : TPTransientError(p) /\ UNCHANGED <<cbVars, hmVars, msVars, rlVars, reqVars, pmVars, rsVars, arVars, evVars, wfVars, dtVars, smVars, fcVars, mwVars>>
    \/ \E p \in TokenTasks : TPRetry(p) /\ UNCHANGED <<cbVars, hmVars, msVars, rlVars, reqVars, pmVars, rsVars, arVars, evVars, wfVars, dtVars, smVars, fcVars, mwVars>>
    \/ \E p \in TokenTasks : TPFatalError(p) /\ UNCHANGED <<cbVars, hmVars, msVars, rlVars, reqVars, pmVars, rsVars, arVars, evVars, wfVars, dtVars, smVars, fcVars, mwVars>>
    \/ \E p \in TokenTasks : TPCancel(p) /\ UNCHANGED <<cbVars, hmVars, msVars, rlVars, reqVars, pmVars, rsVars, arVars, evVars, wfVars, dtVars, smVars, fcVars, mwVars>>
    \/ \E p \in TokenTasks : TPDone(p) /\ UNCHANGED <<cbVars, hmVars, msVars, rlVars, reqVars, pmVars, rsVars, arVars, evVars, wfVars, dtVars, smVars, fcVars, mwVars>>
    \/ TPClose /\ UNCHANGED <<cbVars, hmVars, msVars, rlVars, reqVars, pmVars, rsVars, arVars, evVars, wfVars, dtVars, smVars, fcVars, mwVars>>
    \/ TPTick /\ UNCHANGED <<cbVars, hmVars, msVars, rlVars, reqVars, pmVars, rsVars, arVars, evVars, wfVars, dtVars, smVars, fcVars, mwVars>>

(***************************************************************************)
(* ChatHistoryManager                                                      *)
(***************************************************************************)
Chats == 1..NumChats

HMTasks == 1..NumHMTasks

\* chat_id = None
NoChat == 0

\* no thread object
NoThread == 0

NoSession == [thread |-> NoThread, persisted |-> FALSE, message_count |-> 0]

\* a serialized thread as the stores hold it.  present: the key exists;
\* valid: the payload passes _validate_thread_data; loads: deserialize_thread
\* and the parse of _created_at succeed; persisted: the _persisted field;
\* count: the _message_count field
NoBlob == [present |-> FALSE, valid |-> FALSE, loads |-> FALSE,
           persisted |-> FALSE, count |-> 0]

\* the payloads another node can have left in a store: well-formed ones,
\* ones that fail to deserialize and ones that fail the schema check
Blobs == {b \in [present : {TRUE}, valid : BOOLEAN, loads : BOOLEAN,
                 persisted : BOOLEAN, count : {0}] :
              (b.loads => b.valid) /\ (b.persisted => b.loads)}

HMUnbuilt ==
    /\ hmPhase = "unbuilt"
    /\ hmPersistEnabled = FALSE
    /\ hmAgent = FALSE
    /\ hmSessions = [c \in Chats |-> NoSession]
    /\ hmOrder = <<>>
    /\ hmCache = [c \in Chats |-> NoBlob]
    /\ hmStore = [c \in Chats |-> NoBlob]
    /\ hmLockHolder = NoTask
    /\ hmWaiters = <<>>
    /\ hmPc = [t \in HMTasks |-> "idle"]
    /\ hmOp = [t \in HMTasks |-> None]
    /\ hmChat = [t \in HMTasks |-> NoChat]
    /\ hmData = [t \in HMTasks |-> NoBlob]
    /\ hmRet = [t \in HMTasks |-> NoThread]
    /\ hmThreads = 0
    /\ hmMade = [c \in Chats |-> 0]
    /\ hmReturned = [c \in Chats |-> {}]
    /\ hmOps = 0
    /\ hmWrites = 0
    /\ hmForce = [t \in HMTasks |-> FALSE]
    /\ hmPos = [t \in HMTasks |-> 0]
    /\ hmSnap = {}
    /\ hmFlush = [c \in Chats |-> "none"]

\* ChatHistoryManager.__init__(config, agent)
HMInit(persist, agent) ==
    /\ hmPhase = "unbuilt"
    /\ hmPhase' = "open"
    /\ hmPersistEnabled' = persist
    /\ hmAgent' = agent
    /\ hmSessions' = [c \in Chats |-> NoSession]
    /\ hmOrder' = <<>>
    /\ hmLockHolder' = NoTask
    /\ UNCHANGED <<hmCache, hmStore, hmWaiters, hmPc, hmOp, hmChat, hmData, hmRet,
                   hmThreads, hmMade, hmReturned, hmOps, hmWrites, hmForce, hmCloseVars>>

\* set_agent(agent)
HMSetAgent ==
    /\ hmPhase = "open"
    /\ ~hmAgent
    /\ hmAgent' = TRUE
    /\ UNCHANGED <<hmPhase, hmPersistEnabled, hmSessions, hmOrder, hmCache, hmStore,
                   hmLockHolder, hmWaiters, hmPc, hmOp, hmChat, hmData, hmRet,
                   hmThreads, hmMade, hmReturned, hmOps, hmWrites, hmForce, hmCloseVars>>

\* another node writes the shared cache or the cold store, or an entry of
\* the cache expires (blob = NoBlob)
HMExternalWrite(c, tier, blob) ==
    /\ hmPhase = "open"
    /\ hmWrites < MaxExternalWrites
    /\ hmWrites' = hmWrites + 1
    /\ IF tier = "cache"
         THEN /\ hmCache[c] # blob
              /\ hmCache' = [hmCache EXCEPT ![c] = blob]
              /\ hmStore' = hmStore
         ELSE /\ hmStore[c] # blob
              /\ hmStore' = [hmStore EXCEPT ![c] = blob]
              /\ hmCache' = hmCache
    /\ UNCHANGED <<hmPhase, hmPersistEnabled, hmAgent, hmSessions, hmOrder,
                   hmLockHolder, hmWaiters, hmPc, hmOp, hmChat, hmData, hmRet,
                   hmThreads, hmMade, hmReturned, hmOps, hmForce, hmCloseVars>>

InMemory(c) == hmSessions[c].thread # NoThread

\* dict insertion: a new key goes last, an existing key keeps its place
Inserted(order, c) ==
    IF \E i \in 1..Len(order) : order[i] = c THEN order ELSE Append(order, c)

\* chat ids that uuid4() can still produce: those nothing knows yet
FreshChats ==
    {c \in Chats : /\ ~InMemory(c)
                   /\ ~hmCache[c].present
                   /\ ~hmStore[c].present
                   /\ \A t \in HMTasks : hmChat[t] # c}

\* _create_new_session(chat_id) followed by the return of
\* get_or_create_thread, which leaves the async with block
HMCreateNewSession(t, c) ==
    /\ hmThreads' = hmThreads + 1
    /\ hmSessions' = [hmSessions EXCEPT ![c] =
                         [thread |-> hmThreads + 1, persisted |-> FALSE,
                          message_count |-> 0]]
    /\ hmOrder' = Inserted(hmOrder, c)
    /\ hmMade' = [hmMade EXCEPT ![c] = hmMade[c] + 1]
    /\ hmRet' = [hmRet EXCEPT ![t] = hmThreads + 1]
    /\ hmReturned' = [hmReturned EXCEPT ![c] = hmReturned[c] \cup {hmThreads + 1}]
    /\ hmPc' = [hmPc EXCEPT ![t] = "returned"]
    /\ hmLockHolder' = IF hmLockHolder = t THEN NoTask ELSE hmLockHolder

\* get_or_create_thread: the block under _session_lock up to its first
\* suspension point; lock is TRUE when the task holds the lock
HMResolve(t, c, lock) ==
    IF c = NoChat
      THEN \E f \in FreshChats :
             /\ hmChat' = [hmChat EXCEPT ![t] = f]
             /\ HMCreateNewSession(t, f)
             /\ UNCHANGED hmData
      ELSE /\ hmChat' = [hmChat EXCEPT ![t] = c]
           /\ IF InMemory(c)
                THEN /\ hmRet' = [hmRet EXCEPT ![t] = hmSessions[c].thread]
                     /\ hmReturned' = [hmReturned EXCEPT ![c] =
                                          hmReturned[c] \cup {hmSessions[c].thread}]
                     /\ hmPc' = [hmPc EXCEPT ![t] = "returned"]
                     /\ hmLockHolder' = IF hmLockHolder = t THEN NoTask ELSE hmLockHolder
                     /\ UNCHANGED <<hmSessions, hmOrder, hmThreads, hmMade, hmData>>
                ELSE /\ hmPc' = [hmPc EXCEPT ![t] = "cache_get"]
                     /\ hmLockHolder' = IF lock THEN t ELSE hmLockHolder
                     /\ UNCHANGED <<hmSessions, hmOrder, hmThreads, hmMade, hmData,
                                    hmRet, hmReturned>>

HMLockFree == hmLockHolder = NoTask /\ hmWaiters = <<>>

\* mutant: get_or_create_thread resolves the chat_id without _session_lock
HMGetOrCreateThreadUnlocked(t, c) ==
    /\ hmPhase = "open"
    /\ hmPc[t] = "idle"
    /\ hmOps < MaxHMOps
    /\ hmOps' = hmOps + 1
    /\ UNCHANGED <<hmWrites, hmForce, hmCloseVars>>
    /\ hmOp' = [hmOp EXCEPT ![t] = "get"]
    /\ IF ~hmAgent
         THEN /\ hmPc' = [hmPc EXCEPT ![t] = "raised"]
              /\ UNCHANGED <<hmSessions, hmOrder, hmLockHolder, hmWaiters, hmChat,
                             hmData, hmRet, hmThreads, hmMade, hmReturned>>
         ELSE HMResolve(t, c, FALSE) /\ UNCHANGED hmWaiters
    /\ UNCHANGED <<hmPhase, hmPersistEnabled, hmAgent, hmCache, hmStore>>

\* get_or_create_thread(chat_id): the agent check, then async with
\* self._session_lock
HMGetOrCreateThread(t, c) ==
    /\ hmPhase = "open"
    /\ hmPc[t] = "idle"
    /\ hmOps < MaxHMOps
    /\ hmOps' = hmOps + 1
    /\ UNCHANGED <<hmWrites, hmForce, hmCloseVars>>
    /\ hmOp' = [hmOp EXCEPT ![t] = "get"]
    /\ IF ~hmAgent
         THEN /\ hmPc' = [hmPc EXCEPT ![t] = "raised"]
              /\ UNCHANGED <<hmSessions, hmOrder, hmLockHolder, hmWaiters, hmChat,
                             hmData, hmRet, hmThreads, hmMade, hmReturned>>
         ELSE IF HMLockFree
                THEN HMResolve(t, c, TRUE) /\ UNCHANGED hmWaiters
                ELSE /\ hmPc' = [hmPc EXCEPT ![t] = "waiting"]
                     /\ hmChat' = [hmChat EXCEPT ![t] = c]
                     /\ hmWaiters' = Append(hmWaiters, t)
                     /\ UNCHANGED <<hmSessions, hmOrder, hmLockHolder, hmData, hmRet,
                                    hmThreads, hmMade, hmReturned>>
    /\ UNCHANGED <<hmPhase, hmPersistEnabled, hmAgent, hmCache, hmStore>>

\* the first queued task is woken by the release of _session_lock and enters
HMWake(t) ==
    /\ hmLockHolder = NoTask
    /\ hmWaiters # <<>>
    /\ Head(hmWaiters) = t
    /\ hmWaiters' = Tail(hmWaiters)
    /\ HMResolve(t, hmChat[t], TRUE)
    /\ UNCHANGED <<hmPhase, hmPersistEnabled, hmAgent, hmCache, hmStore, hmOp, hmOps, hmWrites, hmForce, hmCloseVars>>

\* cached = await self._cache.get(chat_id) has returned
HMCacheGot(t) ==
    /\ hmPc[t] = "cache_get"
    /\ LET c == hmChat[t]
           cached == hmCache[c]
       IN  IF cached.present
             THEN \* _restore_session(chat_id, cached)
                  IF cached.valid
                    THEN /\ hmPc' = [hmPc EXCEPT ![t] = "deserialize"]
                         /\ hmData' = [hmData EXCEPT ![t] = cached]
                         /\ UNCHANGED <<hmSessions, hmOrder, hmLockHolder, hmRet,
                                        hmThreads, hmMade, hmReturned>>
                    ELSE HMCreateNewSession(t, c) /\ UNCHANGED hmData
             ELSE IF hmPersistEnabled
                    THEN /\ hmPc' = [hmPc EXCEPT ![t] = "store_get"]
                         /\ UNCHANGED <<hmSessions, hmOrder, hmLockHolder, hmData,
                                        hmRet, hmThreads, hmMade, hmReturned>>
                    ELSE HMCreateNewSession(t, c) /\ UNCHANGED hmData
    /\ UNCHANGED <<hmPhase, hmPersistEnabled, hmAgent, hmCache, hmStore, hmWaiters,
                   hmOp, hmChat, hmOps, hmWrites, hmForce, hmCloseVars>>

\* persisted = await self._persistence.get(chat_id) has returned
HMStoreGot(t) ==
    /\ hmPc[t] = "store_get"
    /\ LET c == hmChat[t]
           persisted == hmStore[c]
       IN  IF persisted.present
             THEN /\ hmPc' = [hmPc EXCEPT ![t] = "cache_warm"]
                  /\ hmData' = [hmData EXCEPT ![t] = persisted]
                  /\ UNCHANGED <<hmSessions, hmOrder, hmLockHolder, hmRet,
                                 hmThreads, hmMade, hmReturned>>
             ELSE HMCreateNewSession(t, c) /\ UNCHANGED hmData
    /\ UNCHANGED <<hmPhase, hmPersistEnabled, hmAgent, hmCache, hmStore, hmWaiters,
                   hmOp, hmChat, hmOps, hmWrites, hmForce, hmCloseVars>>

\* await self._cache.set(chat_id, persisted) has returned; stored is FALSE
\* when the cache refused the write.  _restore_session then validates.
HMCacheWarmed(t, stored) ==
    /\ hmPc[t] = "cache_warm"
    /\ hmCache' = IF stored THEN [hmCache EXCEPT ![hmChat[t]] = hmData[t]] ELSE hmCache
    /\ IF hmData[t].valid
         THEN /\ hmPc' = [hmPc EXCEPT ![t] = "deserialize"]
              /\ UNCHANGED <<hmSessions, hmOrder, hmLockHolder, hmData, hmRet,
                             hmThreads, hmMade, hmReturned>>
         ELSE HMCreateNewSession(t, hmChat[t]) /\ UNCHANGED hmData
    /\ UNCHANGED <<hmPhase, hmPersistEnabled, hmAgent, hmStore, hmWaiters, hmOp,
                   hmChat, hmOps, hmWrites, hmForce, hmCloseVars>>

\* _restore_session: await self._agent.deserialize_thread(clean_data) has
\* completed; on success the session is built from the payload, on any
\* exception a new session is created instead
HMDeserialized(t) ==
    /\ hmPc[t] = "deserialize"
    /\ LET c == hmChat[t]
           data == hmData[t]
       IN  IF data.loads
             THEN /\ hmThreads' = hmThreads + 1
                  /\ hmSessions' = [hmSessions EXCEPT ![c] =
                                       [thread |-> hmThreads + 1,
                                        persisted |-> data.persisted,
                                        message_count |-> data.count]]
                  /\ hmOrder' = Inserted(hmOrder, c)
                  /\ hmMade' = [hmMade EXCEPT ![c] = hmMade[c] + 1]
                  /\ hmRet' = [hmRet EXCEPT ![t] = hmThreads + 1]
                  /\ hmReturned' = [hmReturned EXCEPT ![c] =
                                       hmReturned[c] \cup {hmThreads + 1}]
                  /\ hmPc' = [hmPc EXCEPT ![t] = "returned"]
                  /\ hmLockHolder' = IF hmLockHolder = t THEN NoTask ELSE hmLockHolder
             ELSE HMCreateNewSession(t, c)
    /\ hmData' = [hmData EXCEPT ![t] = NoBlob]
    /\ UNCHANGED <<hmPhase, hmPersistEnabled, hmAgent, hmCache, hmStore, hmWaiters,
                   hmOp, hmChat, hmOps, hmWrites, hmForce, hmCloseVars>>

\* the task is cancelled at a suspension point of get_or_create_thread; the
\* async with block releases the lock
HMGetCancelled(t) ==
    /\ hmOp[t] = "get"
    /\ hmPc[t] \in {"waiting", "cache_get", "store_get", "cache_warm", "deserialize"}
    /\ hmPc' = [hmPc EXCEPT ![t] = "cancelled"]
    /\ hmWaiters' = SelectSeq(hmWaiters, LAMBDA q : q # t)
    /\ hmLockHolder' = IF hmLockHolder = t THEN NoTask ELSE hmLockHolder
    /\ hmData' = [hmData EXCEPT ![t] = NoBlob]
    /\ UNCHANGED <<hmPhase, hmPersistEnabled, hmAgent, hmSessions, hmOrder, hmCache,
                   hmStore, hmOp, hmChat, hmRet, hmThreads, hmMade, hmReturned, hmOps, hmWrites, hmForce, hmCloseVars>>

\* the caller has received the result or the exception
HMDone(t) ==
    /\ hmPc[t] \in {"returned", "raised", "cancelled"}
    /\ hmPc' = [hmPc EXCEPT ![t] = "idle"]
    /\ hmOp' = [hmOp EXCEPT ![t] = None]
    /\ hmChat' = [hmChat EXCEPT ![t] = NoChat]
    /\ hmRet' = [hmRet EXCEPT ![t] = NoThread]
    /\ hmData' = [hmData EXCEPT ![t] = NoBlob]
    /\ UNCHANGED <<hmPhase, hmPersistEnabled, hmAgent, hmSessions, hmOrder, hmCache,
                   hmStore, hmLockHolder, hmWaiters, hmThreads, hmMade, hmReturned,
                   hmOps, hmWrites, hmForce, hmCloseVars>>

\* thread.serialize(): the payload of a live thread, without metadata
Serialized == [present |-> TRUE, valid |-> TRUE, loads |-> TRUE,
               persisted |-> FALSE, count |-> 0]

\* _merge_thread_data(existing, new) as far as the payload summary goes:
\* {**existing, **new}, so the fields of new win and a field only existing
\* has (here _message_count, absent when count = 0) is kept
MergeThreadData(existing, new) ==
    [new EXCEPT !.count = IF new.count > 0 THEN new.count ELSE existing.count]

\* save_thread(chat_id, thread, force_persist): up to await thread.serialize()
HMSaveThread(t, c, force) ==
    /\ hmPhase = "open"
    /\ hmPc[t] = "idle"
    /\ hmOps < MaxHMOps
    /\ hmOps' = hmOps + 1
    /\ hmOp' = [hmOp EXCEPT ![t] = "save"]
    /\ hmChat' = [hmChat EXCEPT ![t] = c]
    /\ hmForce' = [hmForce EXCEPT ![t] = force]
    /\ hmPc' = [hmPc EXCEPT ![t] = "serialize"]
    /\ UNCHANGED <<hmPhase, hmPersistEnabled, hmAgent, hmSessions, hmOrder, hmCache,
                   hmStore, hmLockHolder, hmWaiters, hmData, hmRet, hmThreads,
                   hmMade, hmReturned, hmWrites, hmCloseVars>>

\* save_thread: thread.serialize() has completed; the metadata is added and
\* await self._cache.set(...) starts.  An exception makes save_thread
\* return False.
HMSaveSerialized(t, ok) ==
    /\ hmOp[t] = "save"
    /\ hmPc[t] = "serialize"
    /\ LET c == hmChat[t]
       IN  IF ok
             THEN /\ hmSessions' =
                       IF InMemory(c)
                         THEN [hmSessions EXCEPT ![c].message_count = @ + 1]
                         ELSE hmSessions
                  /\ hmData' = [hmData EXCEPT ![t] =
                       [Serialized EXCEPT !.count =
                           IF InMemory(c) THEN hmSessions[c].message_count + 1 ELSE 0]]
                  /\ hmPc' = [hmPc EXCEPT ![t] = "cache_set"]
             ELSE /\ hmPc' = [hmPc EXCEPT ![t] = "returned"]
                  /\ UNCHANGED <<hmSessions, hmData>>
    /\ UNCHANGED <<hmPhase, hmPersistEnabled, hmAgent, hmOrder, hmCache, hmStore,
                   hmLockHolder, hmWaiters, hmOp, hmChat, hmRet, hmThreads, hmMade,
                   hmReturned, hmOps, hmWrites, hmForce, hmCloseVars>>

\* save_thread: cached = await self._cache.set(chat_id, thread_data) has
\* returned; persist when forced or when the cache refused the write
HMSaveCached(t, cached) ==
    /\ hmOp[t] = "save"
    /\ hmPc[t] = "cache_set"
    /\ hmCache' = IF cached THEN [hmCache EXCEPT ![hmChat[t]] = hmData[t]] ELSE hmCache
    /\ hmPc' = [hmPc EXCEPT ![t] =
                  IF (hmForce[t] \/ ~cached) /\ hmPersistEnabled
                    THEN "persist_get" ELSE "returned"]
    /\ UNCHANGED <<hmPhase, hmPersistEnabled, hmAgent, hmSessions, hmOrder, hmStore,
                   hmLockHolder, hmWaiters, hmOp, hmChat, hmData, hmRet, hmThreads,
                   hmMade, hmReturned, hmOps, hmWrites, hmForce, hmCloseVars>>

\* first index after pos of a session of the listed order that is not marked
\* persisted, 0 when there is none: the sessions close() skips are passed
\* over without a suspension point
NextUnpersisted(order, pos) ==
    LET todo == {i \in (pos + 1)..Len(order) : ~hmSessions[order[i]].persisted}
    IN  IF todo = {} THEN 0 ELSE CHOOSE i \in todo : \A j \in todo : i <= j

\* close(): the for loop moves on from position pos: the next session that
\* is not marked persisted enters the try block, and when none is left the
\* connections are closed.  flush is the record of the attempts so far.
HMCloseAdvance(t, pos, flush) ==
    LET i == NextUnpersisted(hmOrder, pos)
    IN  IF i = 0
          THEN /\ hmPc' = [hmPc EXCEPT ![t] = "cache_close"]
               /\ hmChat' = [hmChat EXCEPT ![t] = NoChat]
               /\ hmPos' = [hmPos EXCEPT ![t] = Len(hmOrder)]
               /\ hmFlush' = flush
          ELSE /\ hmPc' = [hmPc EXCEPT ![t] = "serialize"]
               /\ hmChat' = [hmChat EXCEPT ![t] = hmOrder[i]]
               /\ hmPos' = [hmPos EXCEPT ![t] = i]
               /\ hmFlush' = [flush EXCEPT ![hmOrder[i]] = "tried"]

\* mutant: the try/except encloses the whole loop, so the first failure ends
\* the flush
HMCloseContinueStopsOnFailure(t, ok, stage) ==
    IF ok
      THEN HMCloseAdvance(t, hmPos[t], [hmFlush EXCEPT ![hmChat[t]] = stage])
      ELSE /\ hmPc' = [hmPc EXCEPT ![t] = "cache_close"]
           /\ hmChat' = [hmChat EXCEPT ![t] = NoChat]
           /\ hmPos' = [hmPos EXCEPT ![t] = Len(hmOrder)]
           /\ hmFlush' = [hmFlush EXCEPT ![hmChat[t]] = stage]

\* close(): the try block of one session has ended, normally (ok) or in the
\* except clause; either way the loop goes on with the next session.  stage
\* records how the attempt ended.
HMCloseContinue(t, ok, stage) ==
    HMCloseAdvance(t, hmPos[t], [hmFlush EXCEPT ![hmChat[t]] = stage])

\* close(): stop the background task (none is running), then start the
\* flush loop when persistence is enabled
HMClose(t) ==
    /\ hmPhase = "open"
    /\ hmPc[t] = "idle"
    /\ hmPhase' = "closing"
    /\ hmOp' = [hmOp EXCEPT ![t] = "close"]
    /\ hmSnap' = {c \in Chats : InMemory(c) /\ ~hmSessions[c].persisted}
    /\ IF hmPersistEnabled
         THEN HMCloseAdvance(t, 0, [c \in Chats |-> "none"])
         ELSE /\ hmPc' = [hmPc EXCEPT ![t] = "cache_close"]
              /\ hmFlush' = [c \in Chats |-> "none"]
              /\ UNCHANGED <<hmChat, hmPos>>
    /\ UNCHANGED <<hmPersistEnabled, hmAgent, hmSessions, hmOrder, hmCache, hmStore,
                   hmLockHolder, hmWaiters, hmData, hmRet, hmThreads, hmMade,
                   hmReturned, hmOps, hmWrites, hmForce>>

\* close(): thread_data = await session.thread.serialize() has completed; an
\* exception is caught and logged by the except clause of the loop body
HMCloseSerialized(t, ok) ==
    /\ hmOp[t] = "close"
    /\ hmPc[t] = "serialize"
    /\ IF ok
         THEN /\ hmData' = [hmData EXCEPT ![t] = Serialized]
              /\ hmPc' = [hmPc EXCEPT ![t] = "persist_get"]
              /\ hmFlush' = [hmFlush EXCEPT ![hmChat[t]] = "merging"]
              /\ UNCHANGED <<hmChat, hmPos>>
         ELSE /\ HMCloseContinue(t, FALSE, "serialize_failed")
              /\ hmData' = hmData
    /\ UNCHANGED <<hmPhase, hmPersistEnabled, hmAgent, hmSessions, hmOrder, hmCache,
                   hmStore, hmLockHolder, hmWaiters, hmOp, hmRet, hmThreads, hmMade,
                   hmReturned, hmOps, hmWrites, hmForce, hmSnap>>

\* _persist_with_merge: existing = await self._persistence.get(chat_id) has
\* completed and the merge is done; ok is FALSE when either raised, which
\* makes _persist_with_merge return False
HMPersistGot(t, ok) ==
    /\ hmPc[t] = "persist_get"
    /\ LET c == hmChat[t]
           existing == hmStore[c]
           merged == IF existing.present
                       THEN MergeThreadData(existing, hmData[t])
                       ELSE hmData[t]
       IN  IF ok
             THEN /\ hmData' = [hmData EXCEPT ![t] = [merged EXCEPT !.persisted = TRUE]]
                  /\ hmPc' = [hmPc EXCEPT ![t] = "persist_save"]
                  /\ UNCHANGED <<hmChat, hmCloseVars>>
             ELSE /\ hmData' = [hmData EXCEPT ![t] = NoBlob]
                  /\ IF hmOp[t] = "close"
                       THEN HMCloseContinue(t, FALSE, "failed") /\ UNCHANGED hmSnap
                       ELSE /\ hmPc' = [hmPc EXCEPT ![t] = "returned"]
                            /\ UNCHANGED <<hmChat, hmCloseVars>>
    /\ UNCHANGED <<hmPhase, hmPersistEnabled, hmAgent, hmSessions, hmOrder, hmCache,
                   hmStore, hmLockHolder, hmWaiters, hmOp, hmRet, hmThreads, hmMade,
                   hmReturned, hmOps, hmWrites, hmForce>>

\* _persist_with_merge: success = await self._persistence.save(chat_id,
\* merged) has completed (success is FALSE also when it raised); a stored
\* blob marks the session persisted
HMPersistSaved(t, success) ==
    /\ hmPc[t] = "persist_save"
    /\ LET c == hmChat[t]
       IN  /\ hmStore' = IF success THEN [hmStore EXCEPT ![c] = hmData[t]] ELSE hmStore
           /\ hmSessions' = IF success /\ InMemory(c)
                              THEN [hmSessions EXCEPT ![c].persisted = TRUE]
                              ELSE hmSessions
    /\ hmData' = [hmData EXCEPT ![t] = NoBlob]
    /\ IF hmOp[t] = "close"
         THEN /\ HMCloseContinue(t, success, IF success THEN "saved" ELSE "failed")
              /\ UNCHANGED hmSnap
         ELSE /\ hmPc' = [hmPc EXCEPT ![t] = "returned"]
              /\ UNCHANGED <<hmChat, hmCloseVars>>
    /\ UNCHANGED <<hmPhase, hmPersistEnabled, hmAgent, hmOrder, hmCache, hmLockHolder,
                   hmWaiters, hmOp, hmRet, hmThreads, hmMade, hmReturned, hmOps,
                   hmWrites, hmForce>>

\* close(): await self._cache.close() has returned
HMCacheClosed(t) ==
    /\ hmOp[t] = "close"
    /\ hmPc[t] = "cache_close"
    /\ hmPc' = [hmPc EXCEPT ![t] = "store_close"]
    /\ UNCHANGED <<hmPhase, hmPersistEnabled, hmAgent, hmSessions, hmOrder, hmCache,
                   hmStore, hmLockHolder, hmWaiters, hmOp, hmChat, hmData, hmRet,
                   hmThreads, hmMade, hmReturned, hmOps, hmWrites, hmForce, hmCloseVars>>

\* close(): await self._persistence.close() has returned; self._sessions is
\* cleared and close() returns
HMStoreClosed(t) ==
    /\ hmOp[t] = "close"
    /\ hmPc[t] = "store_close"
    /\ hmSessions' = [c \in Chats |-> NoSession]
    /\ hmOrder' = <<>>
    /\ hmPc' = [hmPc EXCEPT ![t] = "returned"]
    /\ hmPhase' = "closed"
    /\ UNCHANGED <<hmPersistEnabled, hmAgent, hmCache, hmStore, hmLockHolder,
                   hmWaiters, hmOp, hmChat, hmData, hmRet, hmThreads, hmMade,
                   hmReturned, hmOps, hmWrites, hmForce, hmCloseVars>>

\* close() is cancelled at a suspension point: CancelledError is not caught
\* by the except clause of the loop, close() does not return
HMCloseCancelled(t) ==
    /\ hmOp[t] = "close"
    /\ hmPc[t] \in {"serialize", "persist_get", "persist_save", "cache_close",
                    "store_close"}
    /\ hmPc' = [hmPc EXCEPT ![t] = "cancelled"]
    /\ hmData' = [hmData EXCEPT ![t] = NoBlob]
    /\ hmPhase' = "closed"
    /\ UNCHANGED <<hmPersistEnabled, hmAgent, hmSessions, hmOrder, hmCache, hmStore,
                   hmLockHolder, hmWaiters, hmOp, hmChat, hmRet, hmThreads, hmMade,
                   hmReturned, hmOps, hmWrites, hmForce, hmCloseVars>>

\* dict.pop: the key leaves the insertion order
Removed(order, c) == SelectSeq(order, LAMBDA x : x # c)

\* delete_chat(chat_id): up to await self._cache.delete(chat_id)
HMDeleteChat(t, c) ==
    /\ hmPhase = "open"
    /\ hmPc[t] = "idle"
    /\ hmOps < MaxHMOps
    /\ hmOps' = hmOps + 1
    /\ hmOp' = [hmOp EXCEPT ![t] = "delete"]
    /\ hmChat' = [hmChat EXCEPT ![t] = c]
    /\ hmPc' = [hmPc EXCEPT ![t] = "cache_delete"]
    /\ UNCHANGED <<hmPhase, hmPersistEnabled, hmAgent, hmSessions, hmOrder, hmCache,
                   hmStore, hmLockHolder, hmWaiters, hmData, hmRet, hmThreads,
                   hmMade, hmReturned, hmWrites, hmForce, hmCloseVars>>

\* delete_chat: the cache entry is gone; without persistence the session is
\* popped at once
HMCacheDeleted(t) ==
    /\ hmOp[t] = "delete"
    /\ hmPc[t] = "cache_delete"
    /\ hmCache' = [hmCache EXCEPT ![hmChat[t]] = NoBlob]
    /\ IF hmPersistEnabled
         THEN /\ hmPc' = [hmPc EXCEPT ![t] = "store_delete"]
              /\ UNCHANGED <<hmSessions, hmOrder>>
         ELSE /\ hmPc' = [hmPc EXCEPT ![t] = "returned"]
              /\ hmSessions' = [hmSessions EXCEPT ![hmChat[t]] = NoSession]
              /\ hmOrder' = Removed(hmOrder, hmChat[t])
    /\ UNCHANGED <<hmPhase, hmPersistEnabled, hmAgent, hmStore, hmLockHolder,
                   hmWaiters, hmOp, hmChat, hmData, hmRet, hmThreads, hmMade,
                   hmReturned, hmOps, hmWrites, hmForce, hmCloseVars>>

\* delete_chat: await self._persistence.delete(chat_id) has returned, then
\* the session is popped
HMStoreDeleted(t, ok) ==
    /\ hmOp[t] = "delete"
    /\ hmPc[t] = "store_delete"
    /\ hmStore' = IF ok THEN [hmStore EXCEPT ![hmChat[t]] = NoBlob] ELSE hmStore
    /\ hmPc' = [hmPc EXCEPT ![t] = "returned"]
    /\ hmSessions' = [hmSessions EXCEPT ![hmChat[t]] = NoSession]
    /\ hmOrder' = Removed(hmOrder, hmChat[t])
    /\ UNCHANGED <<hmPhase, hmPersistEnabled, hmAgent, hmCache, hmLockHolder,
                   hmWaiters, hmOp, hmChat, hmData, hmRet, hmThreads, hmMade,
                   hmReturned, hmOps, hmWrites, hmForce, hmCloseVars>>

\* how an attempt of close() to persist a session can have ended
FlushEnded == {"serialize_failed", "failed", "saved"}

\* C10: when close() returns with persistence enabled, the attempt to
\* persist (serialize, then persist-with-merge) has been made and has run to
\* its end for every session that was in memory and not marked persisted
\* when close() began, whether or not attempts for other sessions failed.
C10_CloseFlushesAll ==
    \A t \in HMTasks :
        (hmOp[t] = "close" /\ hmPc[t] = "returned" /\ hmPersistEnabled)
            => \A c \in hmSnap : hmFlush[c] \in FlushEnded

\* C10 witness: close() has returned after the attempt for one session
\* failed and the attempt for a later session stored its blob
C10_Witness ==
    \E t \in HMTasks :
        /\ hmOp[t] = "close" /\ hmPc[t] = "returned" /\ hmPersistEnabled
        /\ \E c, d \in hmSnap :
              /\ hmFlush[c] \in {"serialize_failed", "failed"}
              /\ hmFlush[d] = "saved"
              /\ hmStore[d].present
              /\ c < d

\* C37: after close() with persistence enabled, the cold store holds the
\* latest saved state of every session that was in memory, including
\* sessions that were persisted once and then saved again before the close.
\* Checked when the flush loop of close() has ended and the sessions are
\* not yet cleared: for every session saved at least once, close() stored
\* its thread, or the store holds the blob of its latest save_thread (the
\* one whose _message_count is the session's), or the attempt of close()
\* for it failed.
C37_StoreLatestAfterClose ==
    \A t \in HMTasks :
        (hmOp[t] = "close" /\ hmPc[t] = "store_close" /\ hmPersistEnabled)
            => \A c \in Chats :
                  (InMemory(c) /\ hmSessions[c].message_count > 0)
                      => \/ hmFlush[c] \in FlushEnded
                         \/ /\ hmStore[c].present
                            /\ hmStore[c].count = hmSessions[c].message_count

\* C38: once delete_chat(chat_id) has completed and no tier (process
\* memory, hot cache, cold store) holds the conversation, a save_thread of
\* that conversation that was in flight when the delete ran does not bring
\* it back.  The save_thread is one that added the session's metadata
\* (_message_count > 0) and waits in self._cache.set: the session was still
\* in memory when it serialized, so it started before delete_chat popped
\* the session.  No step of it may put the conversation into a tier.
C38_DeleteNotUndone ==
    [][\A t, u \in HMTasks :
          ( /\ hmOp[t] = "delete" /\ hmPc[t] = "returned"
            /\ ~InMemory(hmChat[t])
            /\ ~hmCache[hmChat[t]].present
            /\ ~hmStore[hmChat[t]].present
            /\ hmOp[u] = "save" /\ hmChat[u] = hmChat[t]
            /\ hmPc[u] = "cache_set" /\ hmData[u].count > 0 )
              => /\ hmSessions'[hmChat[t]].thread = NoThread
                 /\ ~hmCache'[hmChat[t]].present
                 /\ ~hmStore'[hmChat[t]].present]_vars

\* C1: under any interleaving of concurrent get_or_create_thread(chat_id)
\* calls, at most one ChatSession is ever created for a chat_id and every
\* call for that chat_id returns the same thread object.
C1_OneSessionPerChat ==
    \A c \in Chats : hmMade[c] <= 1 /\ Cardinality(hmReturned[c]) <= 1

\* C1 witness: two calls for the same chat_id have both returned, one of
\* which had to queue on the lock, and they hold the same thread
C1_Witness ==
    \E t, u \in HMTasks :
        /\ t # u
        /\ hmPc[t] = "returned" /\ hmPc[u] = "returned"
        /\ hmChat[t] = hmChat[u]
        /\ hmRet[t] = hmRet[u] /\ hmRet[t] # NoThread
        /\ hmMade[hmChat[t]] = 1

NextThreads ==
    \/ \E persist, agent \in BOOLEAN : HMInit(persist, agent) /\ UNCHANGED <<cbVars, tpVars, msVars, rlVars, reqVars, pmVars, rsVars, arVars, evVars, wfVars, dtVars, smVars, fcVars, mwVars>>
    \/ HMSetAgent /\ UNCHANGED <<cbVars, tpVars, msVars, rlVars, reqVars, pmVars, rsVars, arVars, evVars, wfVars, dtVars, smVars, fcVars, mwVars>>
    \/ \E c \in Chats, tier \in {"cache", "store"}, blob \in Blobs \cup {NoBlob} :
          HMExternalWrite(c, tier, blob) /\ UNCHANGED <<cbVars, tpVars, msVars, rlVars, reqVars, pmVars, rsVars, arVars, evVars, wfVars, dtVars, smVars, fcVars, mwVars>>
    \/ \E t \in HMTasks, c \in Chats \cup {NoChat} :
          HMGetOrCreateThread(t, c) /\ UNCHANGED <<cbVars, tpVars, msVars, rlVars, reqVars, pmVars, rsVars, arVars, evVars, wfVars, dtVars, smVars, fcVars, mwVars>>
    \/ \E t \in HMTasks : HMWake(t) /\ UNCHANGED <<cbVars, tpVars, msVars, rlVars, reqVars, pmVars, rsVars, arVars, evVars, wfVars, dtVars, smVars, fcVars, mwVars>>
    \/ \E t \in HMTasks : HMCacheGot(t) /\ UNCHANGED <<cbVars, tpVars, msVars, rlVars, reqVars, pmVars, rsVars, arVars, evVars, wfVars, dtVars, smVars, fcVars, mwVars>>
    \/ \E t \in HMTasks : HMStoreGot(t) /\ UNCHANGED <<cbVars, tpVars, msVars, rlVars, reqVars, pmVars, rsVars, arVars, evVars, wfVars, dtVars, smVars, fcVars, mwVars>>
    \/ \E t \in HMTasks, stored \in BOOLEAN : HMCacheWarmed(t, stored) /\ UNCHANGED <<cbVars, tpVars, msVars, rlVars, reqVars, pmVars, rsVars, arVars, evVars, wfVars, dtVars, smVars, fcVars, mwVars>>
    \/ \E t \in HMTasks : HMDeserialized(t) /\ UNCHANGED <<cbVars, tpVars, msVars, rlVars, reqVars, pmVars, rsVars, arVars, evVars, wfVars, dtVars, smVars, fcVars, mwVars>>
    \/ \E t \in HMTasks : HMGetCancelled(t) /\ UNCHANGED <<cbVars, tpVars, msVars, rlVars, reqVars, pmVars, rsVars, arVars, evVars, wfVars, dtVars, smVars, fcVars, mwVars>>
    \/ \E t \in HMTasks : HMDone(t) /\ UNCHANGED <<cbVars, tpVars, msVars, rlVars, reqVars, pmVars, rsVars, arVars, evVars, wfVars, dtVars, smVars, fcVars, mwVars>>

\* the manager in full; close() is called at shutdown, when no other call is
\* in progress
NextHM ==
    \/ \E persist, agent \in BOOLEAN : HMInit(persist, agent) /\ UNCHANGED <<cbVars, tpVars, msVars, rlVars, reqVars, pmVars, rsVars, arVars, evVars, wfVars, dtVars, smVars, fcVars, mwVars>>
    \/ HMSetAgent /\ UNCHANGED <<cbVars, tpVars, msVars, rlVars, reqVars, pmVars, rsVars, arVars, evVars, wfVars, dtVars, smVars, fcVars, mwVars>>
    \/ \E t \in HMTasks, c \in Chats \cup {NoChat} :
          HMGetOrCreateThread(t, c) /\ UNCHANGED <<cbVars, tpVars, msVars, rlVars, reqVars, pmVars, rsVars, arVars, evVars, wfVars, dtVars, smVars, fcVars, mwVars>>
    \/ \E t \in HMTasks : HMWake(t) /\ UNCHANGED <<cbVars, tpVars, msVars, rlVars, reqVars, pmVars, rsVars, arVars, evVars, wfVars, dtVars, smVars, fcVars, mwVars>>
    \/ \E t \in HMTasks : HMCacheGot(t) /\ UNCHANGED <<cbVars, tpVars, msVars, rlVars, reqVars, pmVars, rsVars, arVars, evVars, wfVars, dtVars, smVars, fcVars, mwVars>>
    \/ \E t \in HMTasks : HMStoreGot(t) /\ UNCHANGED <<cbVars, tpVars, msVars, rlVars, reqVars, pmVars, rsVars, arVars, evVars, wfVars, dtVars, smVars, fcVars, mwVars>>
    \/ \E t \in HMTasks, stored \in BOOLEAN : HMCacheWarmed(t, stored) /\ UNCHANGED <<cbVars, tpVars, msVars, rlVars, reqVars, pmVars, rsVars, arVars, evVars, wfVars, dtVars, smVars, fcVars, mwVars>>
    \/ \E t \in HMTasks : HMDeserialized(t) /\ UNCHANGED <<cbVars, tpVars, msVars, rlVars, reqVars, pmVars, rsVars, arVars, evVars, wfVars, dtVars, smVars, fcVars, mwVars>>
    \/ \E t \in HMTasks : HMGetCancelled(t) /\ UNCHANGED <<cbVars, tpVars, msVars, rlVars, reqVars, pmVars, rsVars, arVars, evVars, wfVars, dtVars, smVars, fcVars, mwVars>>
    \/ \E t \in HMTasks : HMDone(t) /\ UNCHANGED <<cbVars, tpVars, msVars, rlVars, reqVars, pmVars, rsVars, arVars, evVars, wfVars, dtVars, smVars, fcVars, mwVars>>
    \/ \E t \in HMTasks, c \in Chats, force \in BOOLEAN :
          HMSaveThread(t, c, force) /\ UNCHANGED <<cbVars, tpVars, msVars, rlVars, reqVars, pmVars, rsVars, arVars, evVars, wfVars, dtVars, smVars, fcVars, mwVars>>
    \/ \E t \in HMTasks, ok \in BOOLEAN : HMSaveSerialized(t, ok) /\ UNCHANGED <<cbVars, tpVars, msVars, rlVars, reqVars, pmVars, rsVars, arVars, evVars, wfVars, dtVars, smVars, fcVars, mwVars>>
    \/ \E t \in HMTasks, cached \in BOOLEAN : HMSaveCached(t, cached) /\ UNCHANGED <<cbVars, tpVars, msVars, rlVars, reqVars, pmVars, rsVars, arVars, evVars, wfVars, dtVars, smVars, fcVars, mwVars>>
    \/ \E t \in HMTasks, ok \in BOOLEAN : HMPersistGot(t, ok) /\ UNCHANGED <<cbVars, tpVars, msVars, rlVars, reqVars, pmVars, rsVars, arVars, evVars, wfVars, dtVars, smVars, fcVars, mwVars>>
    \/ \E t \in HMTasks, success \in BOOLEAN : HMPersistSaved(t, success) /\ UNCHANGED <<cbVars, tpVars, msVars, rlVars, reqVars, pmVars, rsVars, arVars, evVars, wfVars, dtVars, smVars, fcVars, mwVars>>
    \/ \E t \in HMTasks, c \in Chats : HMDeleteChat(t, c) /\ UNCHANGED <<cbVars, tpVars, msVars, rlVars, reqVars, pmVars, rsVars, arVars, evVars, wfVars, dtVars, smVars, fcVars, mwVars>>
    \/ \E t \in HMTasks : HMCacheDeleted(t) /\ UNCHANGED <<cbVars, tpVars, msVars, rlVars, reqVars, pmVars, rsVars, arVars, evVars, wfVars, dtVars, smVars, fcVars, mwVars>>
    \/ \E t \in HMTasks, ok \in BOOLEAN : HMStoreDeleted(t, ok) /\ UNCHANGED <<cbVars, tpVars, msVars, rlVars, reqVars, pmVars, rsVars, arVars, evVars, wfVars, dtVars, smVars, fcVars, mwVars>>
    \/ \E t \in HMTasks :
          /\ \A u \in HMTasks : hmPc[u] = "idle"
          /\ HMClose(t) /\ UNCHANGED <<cbVars, tpVars, msVars, rlVars, reqVars, pmVars, rsVars, arVars, evVars, wfVars, dtVars, smVars, fcVars, mwVars>>
    \/ \E t \in HMTasks, ok \in BOOLEAN : HMCloseSerialized(t, ok) /\ UNCHANGED <<cbVars, tpVars, msVars, rlVars, reqVars, pmVars, rsVars, arVars, evVars, wfVars, dtVars, smVars, fcVars, mwVars>>
    \/ \E t \in HMTasks : HMCacheClosed(t) /\ UNCHANGED <<cbVars, tpVars, msVars, rlVars, reqVars, pmVars, rsVars, arVars, evVars, wfVars, dtVars, smVars, fcVars, mwVars>>
    \/ \E t \in HMTasks : HMStoreClosed(t) /\ UNCHANGED <<cbVars, tpVars, msVars, rlVars, reqVars, pmVars, rsVars, arVars, evVars, wfVars, dtVars, smVars, fcVars, mwVars>>
    \/ \E t \in HMTasks : HMCloseCancelled(t) /\ UNCHANGED <<cbVars, tpVars, msVars, rlVars, reqVars, pmVars, rsVars, arVars, evVars, wfVars, dtVars, smVars, fcVars, mwVars>>

(***************************************************************************)
(* MCPSessionManager                                                       *)
(***************************************************************************)
\* the cache keys: _cache_key(chat_id, mcp_server_name), one per pair
Keys == 1..NumKeys

MSTasks == 1..NumMSTasks

\* no session
NoSid == 0

MSUnbuilt ==
    /\ msPhase = "unbuilt"
    /\ msHasCache = FALSE
    /\ msHasStore = FALSE
    /\ msPersist = FALSE
    /\ msSessions = [k \in Keys |-> NoSid]
    /\ msCache = [k \in Keys |-> NoSid]
    /\ msStore = [k \in Keys |-> NoSid]
    /\ msPc = [t \in MSTasks |-> "idle"]
    /\ msKey = [t \in MSTasks |-> 0]
    /\ msSid = [t \in MSTasks |-> NoSid]
    /\ msIds = 0
    /\ msOps = 0

\* MCPSessionManager.__init__(cache, persistence, config)
MSInit(cache, persistence, persist) ==
    /\ msPhase = "unbuilt"
    /\ msPhase' = "open"
    /\ msHasCache' = cache
    /\ msHasStore' = persistence
    /\ msPersist' = persist
    /\ msSessions' = [k \in Keys |-> NoSid]
    /\ UNCHANGED <<msCache, msStore, msPc, msKey, msSid, msIds, msOps>>

\* get_or_create_session: "Create new session", then save_session up to its
\* first suspension point: a session with a fresh uuid4 id is put in
\* self._sessions, then written to the cache and the store where configured
MSCreate(t, k) ==
    /\ msIds' = msIds + 1
    /\ msSid' = [msSid EXCEPT ![t] = msIds + 1]
    /\ msSessions' = [msSessions EXCEPT ![k] = msIds + 1]
    /\ msPc' = [msPc EXCEPT ![t] =
                  IF msHasCache THEN "save_cache"
                  ELSE IF msPersist /\ msHasStore THEN "save_store"
                  ELSE "returned"]

\* get_or_create_session: the step after the cache lookup missed or failed
MSAfterCache(t, k) ==
    IF msHasStore /\ msPersist
      THEN /\ msPc' = [msPc EXCEPT ![t] = "store_get"]
           /\ UNCHANGED <<msSessions, msSid, msIds>>
      ELSE MSCreate(t, k)

\* get_or_create_session(chat_id, mcp_server_name): the in-memory check, up
\* to the first suspension point
MSGetOrCreateSession(t, k) ==
    /\ msPhase = "open"
    /\ msPc[t] = "idle"
    /\ msOps < MaxMSOps
    /\ msOps' = msOps + 1
    /\ msKey' = [msKey EXCEPT ![t] = k]
    /\ IF msSessions[k] # NoSid
         THEN /\ msSid' = [msSid EXCEPT ![t] = msSessions[k]]
              /\ msPc' = [msPc EXCEPT ![t] = "returned"]
              /\ UNCHANGED <<msSessions, msIds>>
         ELSE IF msHasCache
                THEN /\ msPc' = [msPc EXCEPT ![t] = "cache_get"]
                     /\ UNCHANGED <<msSessions, msSid, msIds>>
                ELSE MSAfterCache(t, k)
    /\ UNCHANGED <<msPhase, msHasCache, msHasStore, msPersist, msCache, msStore>>

\* cached = await self._cache.get(cache_key) has completed; ok is FALSE when
\* it raised (logged, then the lookup goes on)
MSCacheGot(t, ok) ==
    /\ msPc[t] = "cache_get"
    /\ LET k == msKey[t]
       IN  IF ok /\ msCache[k] # NoSid
             THEN /\ msSessions' = [msSessions EXCEPT ![k] = msCache[k]]
                  /\ msSid' = [msSid EXCEPT ![t] = msCache[k]]
                  /\ msPc' = [msPc EXCEPT ![t] = "returned"]
                  /\ msIds' = msIds
             ELSE MSAfterCache(t, k)
    /\ UNCHANGED <<msPhase, msHasCache, msHasStore, msPersist, msCache, msStore,
                   msKey, msOps>>

\* persisted = await self._persistence.get(cache_key) has completed; a hit is
\* installed and then written to the cache
MSStoreGot(t, ok) ==
    /\ msPc[t] = "store_get"
    /\ LET k == msKey[t]
       IN  IF ok /\ msStore[k] # NoSid
             THEN /\ msSessions' = [msSessions EXCEPT ![k] = msStore[k]]
                  /\ msSid' = [msSid EXCEPT ![t] = msStore[k]]
                  /\ msPc' = [msPc EXCEPT ![t] = IF msHasCache THEN "warm" ELSE "returned"]
                  /\ msIds' = msIds
             ELSE MSCreate(t, k)
    /\ UNCHANGED <<msPhase, msHasCache, msHasStore, msPersist, msCache, msStore,
                   msKey, msOps>>

\* the cache warm-up after a hit in the store has completed; when it raised,
\* the except clause logs and the code goes on to create a new session
MSWarmed(t, ok) ==
    /\ msPc[t] = "warm"
    /\ IF ok
         THEN /\ msCache' = [msCache EXCEPT ![msKey[t]] = msSid[t]]
              /\ msPc' = [msPc EXCEPT ![t] = "returned"]
              /\ UNCHANGED <<msSessions, msSid, msIds>>
         ELSE /\ MSCreate(t, msKey[t])
              /\ msCache' = msCache
    /\ UNCHANGED <<msPhase, msHasCache, msHasStore, msPersist, msStore, msKey, msOps>>

\* save_session: await self._cache.set(...) has completed (a failure is
\* logged and ignored)
MSSaveCached(t, ok) ==
    /\ msPc[t] = "save_cache"
    /\ msCache' = IF ok THEN [msCache EXCEPT ![msKey[t]] = msSid[t]] ELSE msCache
    /\ msPc' = [msPc EXCEPT ![t] =
                  IF msPersist /\ msHasStore THEN "save_store" ELSE "returned"]
    /\ UNCHANGED <<msPhase, msHasCache, msHasStore, msPersist, msSessions, msStore,
                   msKey, msSid, msIds, msOps>>

\* save_session: await self._persistence.save(...) has completed (a failure
\* is logged and ignored)
MSSaveStored(t, ok) ==
    /\ msPc[t] = "save_store"
    /\ msStore' = IF ok THEN [msStore EXCEPT ![msKey[t]] = msSid[t]] ELSE msStore
    /\ msPc' = [msPc EXCEPT ![t] = "returned"]
    /\ UNCHANGED <<msPhase, msHasCache, msHasStore, msPersist, msSessions, msCache,
                   msKey, msSid, msIds, msOps>>

\* the task is cancelled at a suspension point
MSCancelled(t) ==
    /\ msPc[t] \in {"cache_get", "store_get", "warm", "save_cache", "save_store"}
    /\ msPc' = [msPc EXCEPT ![t] = "cancelled"]
    /\ UNCHANGED <<msPhase, msHasCache, msHasStore, msPersist, msSessions, msCache,
                   msStore, msKey, msSid, msIds, msOps>>

\* the caller has received the session or the exception
MSDone(t) ==
    /\ msPc[t] \in {"returned", "cancelled"}
    /\ msPc' = [msPc EXCEPT ![t] = "idle"]
    /\ msKey' = [msKey EXCEPT ![t] = 0]
    /\ msSid' = [msSid EXCEPT ![t] = NoSid]
    /\ UNCHANGED <<msPhase, msHasCache, msHasStore, msPersist, msSessions, msCache,
                   msStore, msIds, msOps>>

\* C6: at most one MCP session exists per (chat_id, server_name): calls of
\* get_or_create_session for the same pair all return a session with the
\* same session_id, whatever their interleaving.
C6_OneSessionPerKey ==
    \A t, u \in MSTasks :
        (msPc[t] = "returned" /\ msPc[u] = "returned" /\ msKey[t] = msKey[u])
            => msSid[t] = msSid[u]

\* C25: get_or_create_session resolves a pair in the order memory, cache,
\* persistence and creates a session with a fresh session_id only when all
\* three miss; a hit in persistence keeps the stored session_id and is
\* written through to the cache.  As a step property: a task whose
\* persistence lookup hit (the stored session is installed and the cache
\* warm-up is pending) creates no session and returns the stored session_id.
C25_StoreHitKeepsSessionId ==
    [][\A t \in MSTasks :
         (msPc[t] = "warm" /\ msPc'[t] # "cancelled")
            => /\ msPc'[t] = "returned"
               /\ msSid'[t] = msSid[t]
               /\ msIds' = msIds]_vars

NextMS ==
    \/ \E cache, persistence, persist \in BOOLEAN :
          MSInit(cache, persistence, persist) /\ UNCHANGED <<cbVars, tpVars, hmVars, rlVars, reqVars, pmVars, rsVars, arVars, evVars, wfVars, dtVars, smVars, fcVars, mwVars>>
    \/ \E t \in MSTasks, k \in Keys : MSGetOrCreateSession(t, k) /\ UNCHANGED <<cbVars, tpVars, hmVars, rlVars, reqVars, pmVars, rsVars, arVars, evVars, wfVars, dtVars, smVars, fcVars, mwVars>>
    \/ \E t \in MSTasks, ok \in BOOLEAN : MSCacheGot(t, ok) /\ UNCHANGED <<cbVars, tpVars, hmVars, rlVars, reqVars, pmVars, rsVars, arVars, evVars, wfVars, dtVars, smVars, fcVars, mwVars>>
    \/ \E t \in MSTasks, ok \in BOOLEAN : MSStoreGot(t, ok) /\ UNCHANGED <<cbVars, tpVars, hmVars, rlVars, reqVars, pmVars, rsVars, arVars, evVars, wfVars, dtVars, smVars, fcVars, mwVars>>
    \/ \E t \in MSTasks, ok \in BOOLEAN : MSWarmed(t, ok) /\ UNCHANGED <<cbVars, tpVars, hmVars, rlVars, reqVars, pmVars, rsVars, arVars, evVars, wfVars, dtVars, smVars, fcVars, mwVars>>
    \/ \E t \in MSTasks, ok \in BOOLEAN : MSSaveCached(t, ok) /\ UNCHANGED <<cbVars, tpVars, hmVars, rlVars, reqVars, pmVars, rsVars, arVars, evVars, wfVars, dtVars, smVars, fcVars, mwVars>>
    \/ \E t \in MSTasks, ok \in BOOLEAN : MSSaveStored(t, ok) /\ UNCHANGED <<cbVars, tpVars, hmVars, rlVars, reqVars, pmVars, rsVars, arVars, evVars, wfVars, dtVars, smVars, fcVars, mwVars>>
    \/ \E t \in MSTasks : MSCancelled(t) /\ UNCHANGED <<cbVars, tpVars, hmVars, rlVars, reqVars, pmVars, rsVars, arVars, evVars, wfVars, dtVars, smVars, fcVars, mwVars>>
    \/ \E t \in MSTasks : MSDone(t) /\ UNCHANGED <<cbVars, tpVars, hmVars, rlVars, reqVars, pmVars, rsVars, arVars, evVars, wfVars, dtVars, smVars, fcVars, mwVars>>

(***************************************************************************)
(* RateLimiter                                                             *)
(***************************************************************************)
\* the identifiers `user_id or "global"`: 0 is "global" (user_id is None)
Identifiers == 0..NumUsers

\* the key of _global_minute_state, _global_hour_state, _global_concurrent
GlobalKey == -1

StateKeys == Identifiers \cup {GlobalKey}

\* RateLimitConfig defaults
DefaultRequestsPerMinute == 60
DefaultRequestsPerHour == 1000
DefaultTokensPerMinute == 100000
DefaultMaxConcurrent == 10
\* burst_multiplier, in halves: 3 is the default 1.5, 2 is 1.0
DefaultBurst == 3

\* window lengths and the ages at which _cleanup_windows drops a window
MinuteWindow == 60
HourWindow == 3600
MinuteMaxAge == 120
HourMaxAge == 7200

\* the amounts by which the clock advances between calls
TickSteps == {30, MinuteWindow, HourWindow}

\* a key the defaultdict does not hold
Absent == [present |-> FALSE, count |-> 0, tokens |-> 0, window_start |-> 0]

\* RateLimitState(): window_start defaults to time.time()
RateLimitState(now) == [present |-> TRUE, count |-> 0, tokens |-> 0, window_start |-> now]

RLUnbuilt ==
    /\ rlBuilt = FALSE
    /\ rlConfig = [enabled |-> FALSE, requests_per_minute |-> 0, requests_per_hour |-> 0,
                   tokens_per_minute |-> 0, max_concurrent_requests |-> 0,
                   per_user |-> FALSE, burst |-> 0]
    /\ rlMinute = [k \in StateKeys |-> Absent]
    /\ rlHour = [k \in StateKeys |-> Absent]
    /\ rlConcurrent = [k \in StateKeys |-> 0]
    /\ rlNow = 0
    /\ rlTicks = 0
    /\ rlOps = 0
    /\ rlLast = [op |-> "none", id |-> 0, result |-> "none"]

\* RateLimiter.__init__(config)
RLInit(config) ==
    /\ ~rlBuilt
    /\ rlBuilt' = TRUE
    /\ rlConfig' = config
    /\ rlMinute' = [k \in StateKeys |-> IF k = GlobalKey THEN RateLimitState(rlNow) ELSE Absent]
    /\ rlHour' = [k \in StateKeys |-> IF k = GlobalKey THEN RateLimitState(rlNow) ELSE Absent]
    /\ rlConcurrent' = [k \in StateKeys |-> 0]
    /\ UNCHANGED <<rlNow, rlTicks, rlOps, rlLast>>

\* the state an identifier's calls read and write
StateKey(identifier) == IF rlConfig.per_user THEN identifier ELSE GlobalKey

\* defaultdict(RateLimitState).__getitem__: a missing key is created
Touch(states, k, now) ==
    IF states[k].present THEN states ELSE [states EXCEPT ![k] = RateLimitState(now)]

\* _cleanup_windows: the per-user windows older than maxAge are deleted
CleanupWindows(states, now, maxAge) ==
    [k \in StateKeys |->
        IF k \in Identifiers /\ states[k].present /\ now - states[k].window_start > maxAge
          THEN Absent ELSE states[k]]

\* mutant: a window starts again only once it is older than its length
ResetWindowLate(states, k, now, length) ==
    IF now - states[k].window_start > length
      THEN [states EXCEPT ![k].count = 0, ![k].window_start = now]
      ELSE states

\* _check_request_limit: a window at least `length` old starts again
ResetWindow(states, k, now, length) ==
    IF now - states[k].window_start >= length
      THEN [states EXCEPT ![k].count = 0, ![k].window_start = now]
      ELSE states

\* int(limit * burst_multiplier)
BurstCeiling(limit) == (limit * rlConfig.burst) \div 2

\* the concurrent check lets a request in when the counter is at the limit
CheckConcurrentLimitLax(identifier) ==
    rlConcurrent[StateKey(identifier)] > rlConfig.max_concurrent_requests

\* _check_concurrent_limit(identifier): TRUE when it raises
\* RateLimitExceeded(limit_type="concurrent")
CheckConcurrentLimit(identifier) ==
    rlConcurrent[StateKey(identifier)] >= rlConfig.max_concurrent_requests

\* check_limit(user_id, estimated_tokens): the outcome ("ok" or the
\* limit_type of the RateLimitExceeded raised) and the windows it leaves
CheckLimit(identifier, estimated_tokens) ==
    IF ~rlConfig.enabled
      THEN [result |-> "ok", minute |-> rlMinute, hour |-> rlHour]
      ELSE
        LET k == StateKey(identifier)
            m0 == CleanupWindows(rlMinute, rlNow, MinuteMaxAge)
            h0 == CleanupWindows(rlHour, rlNow, HourMaxAge)
            m1 == ResetWindow(Touch(m0, k, rlNow), k, rlNow, MinuteWindow)
            h1 == ResetWindow(Touch(h0, k, rlNow), k, rlNow, HourWindow)
        IN  IF CheckConcurrentLimit(identifier)
              THEN [result |-> "concurrent", minute |-> m0, hour |-> h0]
            ELSE IF m1[k].count >= BurstCeiling(rlConfig.requests_per_minute)
              THEN [result |-> "requests_per_minute", minute |-> m1, hour |-> h0]
            ELSE IF h1[k].count >= rlConfig.requests_per_hour
              THEN [result |-> "requests_per_hour", minute |-> m1, hour |-> h1]
            ELSE IF /\ estimated_tokens > 0
                    /\ m1[k].tokens + estimated_tokens > BurstCeiling(rlConfig.tokens_per_minute)
              THEN [result |-> "tokens_per_minute", minute |-> m1, hour |-> h1]
            ELSE [result |-> "ok", minute |-> m1, hour |-> h1]

\* record_request(user_id, tokens_used): the windows it leaves
RecordRequest(states, identifier, tokens_used) ==
    IF ~rlConfig.enabled THEN states
    ELSE LET k == StateKey(identifier)
             s == Touch(states, k, rlNow)
         IN  [s EXCEPT ![k].count = @ + 1, ![k].tokens = @ + tokens_used]

\* acquire_concurrent_slot(user_id): the counters it leaves
AcquireConcurrentSlot(counters, identifier) ==
    IF ~rlConfig.enabled THEN counters
    ELSE [counters EXCEPT ![StateKey(identifier)] = @ + 1]

\* release_concurrent_slot(user_id): the counters it leaves
ReleaseConcurrentSlot(counters, identifier) ==
    IF ~rlConfig.enabled THEN counters
    ELSE [counters EXCEPT ![StateKey(identifier)] = Max(0, @ - 1)]

\* a direct call of a limiter method by a client
RLCall(op, identifier, result) ==
    /\ rlBuilt
    /\ rlOps < MaxRLOps
    /\ rlOps' = rlOps + 1
    /\ rlLast' = IF op = "check_limit"
                   THEN [op |-> op, id |-> identifier, result |-> result]
                   ELSE [op |-> "other", id |-> 0, result |-> "ok"]
    /\ UNCHANGED <<rlBuilt, rlConfig, rlNow, rlTicks>>

RLCheckLimit(identifier, estimated_tokens) ==
    LET r == CheckLimit(identifier, estimated_tokens)
    IN  /\ RLCall("check_limit", identifier, r.result)
        /\ rlMinute' = r.minute
        /\ rlHour' = r.hour
        /\ UNCHANGED rlConcurrent

RLRecordRequest(identifier, tokens_used) ==
    /\ RLCall("record_request", identifier, "ok")
    /\ rlMinute' = RecordRequest(rlMinute, identifier, tokens_used)
    /\ rlHour' = RecordRequest(rlHour, identifier, tokens_used)
    /\ UNCHANGED rlConcurrent

RLAcquireConcurrentSlot(identifier) ==
    /\ RLCall("acquire_concurrent_slot", identifier, "ok")
    /\ rlConcurrent' = AcquireConcurrentSlot(rlConcurrent, identifier)
    /\ UNCHANGED <<rlMinute, rlHour>>

RLReleaseConcurrentSlot(identifier) ==
    /\ RLCall("release_concurrent_slot", identifier, "ok")
    /\ rlConcurrent' = ReleaseConcurrentSlot(rlConcurrent, identifier)
    /\ UNCHANGED <<rlMinute, rlHour>>

\* reset(user_id): one user's state is dropped, or (user_id None) all of it
RLReset(identifier) ==
    /\ RLCall("reset", identifier, "ok")
    /\ IF identifier # 0
         THEN /\ rlMinute' = [rlMinute EXCEPT ![identifier] = Absent]
              /\ rlHour' = [rlHour EXCEPT ![identifier] = Absent]
              /\ rlConcurrent' = [rlConcurrent EXCEPT ![identifier] = 0]
         ELSE /\ rlMinute' = [k \in StateKeys |->
                                IF k = GlobalKey THEN RateLimitState(rlNow) ELSE Absent]
              /\ rlHour' = [k \in StateKeys |->
                              IF k = GlobalKey THEN RateLimitState(rlNow) ELSE Absent]
              /\ rlConcurrent' = [k \in StateKeys |-> 0]

\* time passes
RLTick(d) ==
    /\ rlBuilt
    /\ rlTicks < MaxRLTicks
    /\ rlTicks' = rlTicks + 1
    /\ rlNow' = rlNow + d
    /\ UNCHANGED <<rlBuilt, rlConfig, rlMinute, rlHour, rlConcurrent, rlOps, rlLast>>

\* RateLimitConfig(...): the limits other than requests_per_minute are
\* either all at their defaults or all small
Configs ==
    { [enabled |-> e, requests_per_minute |-> n,
       requests_per_hour |-> IF small THEN 2 ELSE DefaultRequestsPerHour,
       tokens_per_minute |-> IF small THEN 1 ELSE DefaultTokensPerMinute,
       max_concurrent_requests |-> IF small THEN 1 ELSE DefaultMaxConcurrent,
       per_user |-> p, burst |-> b] :
        e \in BOOLEAN, n \in 1..MaxRpm, small \in BOOLEAN, p \in BOOLEAN,
        b \in {2, DefaultBurst} }

\* C9: with requests_per_minute = N and every other setting at its default,
\* a check_limit for a user whose current minute window already holds N
\* recorded requests raises RateLimitExceeded.
C9_BlocksAtNominalLimit ==
    [][\A i \in Identifiers :
         ( /\ rlConfig.enabled /\ rlConfig.per_user
           /\ rlConfig.burst = DefaultBurst
           /\ rlConfig.requests_per_hour = DefaultRequestsPerHour
           /\ rlConfig.tokens_per_minute = DefaultTokensPerMinute
           /\ rlConfig.max_concurrent_requests = DefaultMaxConcurrent
           /\ rlMinute[i].present
           /\ rlNow - rlMinute[i].window_start < MinuteWindow
           /\ rlMinute[i].count >= rlConfig.requests_per_minute
           /\ rlOps' = rlOps + 1
           /\ rlLast'.op = "check_limit" /\ rlLast'.id = i )
         => rlLast'.result # "ok"]_vars

\* C34: the admit check of check_limit uses limit x burst_multiplier as its
\* ceiling for every limit it enforces: a check_limit that raises for
\* requests per minute, requests per hour or tokens per minute does so only
\* when the window has reached int(limit * burst_multiplier) (for tokens:
\* when the window's tokens plus the estimate, at most MaxTokens, pass it).
C34_BurstCeilingEverywhere ==
    [][ \A i \in Identifiers :
          (rlOps' = rlOps + 1 /\ rlLast'.op = "check_limit" /\ rlLast'.id = i)
            => LET k == StateKey(i)
               IN  /\ rlLast'.result = "requests_per_minute"
                        => rlMinute'[k].count >= BurstCeiling(rlConfig.requests_per_minute)
                   /\ rlLast'.result = "requests_per_hour"
                        => rlHour'[k].count >= BurstCeiling(rlConfig.requests_per_hour)
                   /\ rlLast'.result = "tokens_per_minute"
                        => rlMinute'[k].tokens + MaxTokens
                              > BurstCeiling(rlConfig.tokens_per_minute)
      ]_vars

C36_TokensResetWithWindow ==
    [][ \A k \in StateKeys :
          (/\ rlMinute[k].present /\ rlMinute'[k].present
           /\ rlMinute'[k].window_start # rlMinute[k].window_start)
            => rlMinute'[k].tokens = 0
      ]_vars

NextRL ==
    \/ \E config \in Configs : RLInit(config) /\ UNCHANGED <<cbVars, tpVars, hmVars, msVars, reqVars, pmVars, rsVars, arVars, evVars, wfVars, dtVars, smVars, fcVars, mwVars>>
    \/ \E i \in Identifiers, e \in 0..MaxTokens :
          RLCheckLimit(i, e) /\ UNCHANGED <<cbVars, tpVars, hmVars, msVars, reqVars, pmVars, rsVars, arVars, evVars, wfVars, dtVars, smVars, fcVars, mwVars>>
    \/ \E i \in Identifiers, n \in 0..MaxTokens :
          RLRecordRequest(i, n) /\ UNCHANGED <<cbVars, tpVars, hmVars, msVars, reqVars, pmVars, rsVars, arVars, evVars, wfVars, dtVars, smVars, fcVars, mwVars>>
    \/ \E i \in Identifiers : RLAcquireConcurrentSlot(i) /\ UNCHANGED <<cbVars, tpVars, hmVars, msVars, reqVars, pmVars, rsVars, arVars, evVars, wfVars, dtVars, smVars, fcVars, mwVars>>
    \/ \E i \in Identifiers : RLReleaseConcurrentSlot(i) /\ UNCHANGED <<cbVars, tpVars, hmVars, msVars, reqVars, pmVars, rsVars, arVars, evVars, wfVars, dtVars, smVars, fcVars, mwVars>>
    \/ \E i \in Identifiers : RLReset(i) /\ UNCHANGED <<cbVars, tpVars, hmVars, msVars, reqVars, pmVars, rsVars, arVars, evVars, wfVars, dtVars, smVars, fcVars, mwVars>>
    \/ \E d \in TickSteps : RLTick(d) /\ UNCHANGED <<cbVars, tpVars, hmVars, msVars, reqVars, pmVars, rsVars, arVars, evVars, wfVars, dtVars, smVars, fcVars, mwVars>>

(***************************************************************************)
(* AIAssistant.process_question and process_question_stream: the rate      *)
(* limiter calls of a request                                              *)
(***************************************************************************)
Requests == 1..NumRequests

ReqUnbuilt ==
    /\ reqPc = [r \in Requests |-> "idle"]
    /\ reqUser = [r \in Requests |-> 0]
    /\ reqStream = [r \in Requests |-> FALSE]
    /\ reqAcquired = [r \in Requests |-> 0]
    /\ reqReleased = [r \in Requests |-> 0]
    /\ reqRecorded = [r \in Requests |-> 0]
    /\ reqOps = 0

\* AIAssistant.__init__: RateLimiter(RateLimitConfig(enabled=..., requests_per_minute=...))
AInit(enabled, rpm) ==
    /\ RLInit([enabled |-> enabled, requests_per_minute |-> rpm,
               requests_per_hour |-> DefaultRequestsPerHour,
               tokens_per_minute |-> DefaultTokensPerMinute,
               max_concurrent_requests |-> DefaultMaxConcurrent,
               per_user |-> TRUE, burst |-> DefaultBurst])
    /\ UNCHANGED reqVars

\* the finally clause: release_concurrent_slot(user_id), then the exit
ReqRelease(r, user_id, counters, exit) ==
    /\ rlConcurrent' = ReleaseConcurrentSlot(counters, user_id)
    /\ reqReleased' = [reqReleased EXCEPT ![r] = @ + 1]
    /\ reqPc' = [reqPc EXCEPT ![r] = exit]

\* the request starts: check_limit and acquire_concurrent_slot (neither
\* suspends), then input validation. A rejected request returns the failure
\* response. A request whose input is invalid goes through the except clause
\* at once: process_question releases and returns, process_question_stream
\* yields the error chunk first.
ReqStart(r, user_id, stream, valid) ==
    /\ rlBuilt
    /\ reqPc[r] = "idle"
    /\ reqOps < MaxReqOps
    /\ reqOps' = reqOps + 1
    /\ reqUser' = [reqUser EXCEPT ![r] = user_id]
    /\ reqStream' = [reqStream EXCEPT ![r] = stream]
    /\ LET c == CheckLimit(user_id, 0)
           held == AcquireConcurrentSlot(rlConcurrent, user_id)
       IN  /\ rlMinute' = c.minute
           /\ rlHour' = c.hour
           /\ IF c.result # "ok"
                THEN /\ reqPc' = [reqPc EXCEPT ![r] = "rejected"]
                     /\ UNCHANGED <<rlConcurrent, reqAcquired, reqReleased>>
                ELSE /\ reqAcquired' = [reqAcquired EXCEPT ![r] = @ + 1]
                     /\ IF valid \/ stream
                          THEN /\ rlConcurrent' = held
                               /\ reqPc' = [reqPc EXCEPT ![r] =
                                              IF valid THEN "running" ELSE "yield_error"]
                               /\ UNCHANGED reqReleased
                          ELSE ReqRelease(r, user_id, held, "returned")
    /\ UNCHANGED <<rlBuilt, rlConfig, rlNow, rlTicks, rlOps, rlLast, reqRecorded>>

\* the thread is resolved, the agent has answered and the thread is saved:
\* record_request(user_id), then the response (process_question) or the
\* final chunk (process_question_stream)
ReqSucceed(r) ==
    /\ reqPc[r] = "running"
    /\ rlMinute' = RecordRequest(rlMinute, reqUser[r], 0)
    /\ rlHour' = RecordRequest(rlHour, reqUser[r], 0)
    /\ reqRecorded' = [reqRecorded EXCEPT ![r] = IF rlConfig.enabled THEN @ + 1 ELSE @]
    /\ IF reqStream[r]
         THEN /\ reqPc' = [reqPc EXCEPT ![r] = "yield_final"]
              /\ UNCHANGED <<rlConcurrent, reqReleased>>
         ELSE ReqRelease(r, reqUser[r], rlConcurrent, "returned")
    /\ UNCHANGED <<rlBuilt, rlConfig, rlNow, rlTicks, rlOps, rlLast,
                   reqUser, reqStream, reqAcquired, reqOps>>

\* an await of the try block raises an Exception: the except clause builds
\* the failure response (process_question) or yields the error chunk
\* (process_question_stream)
ReqFail(r) ==
    /\ reqPc[r] = "running"
    /\ IF reqStream[r]
         THEN /\ reqPc' = [reqPc EXCEPT ![r] = "yield_error"]
              /\ UNCHANGED <<rlConcurrent, reqReleased>>
         ELSE ReqRelease(r, reqUser[r], rlConcurrent, "returned")
    /\ UNCHANGED <<rlBuilt, rlConfig, rlMinute, rlHour, rlNow, rlTicks, rlOps, rlLast,
                   reqUser, reqStream, reqAcquired, reqRecorded, reqOps>>

\* the slot is released at the end of the try block and in the except
\* clause instead of in a finally clause: a cancellation releases nothing
ReqCancelSkipsRelease(r) ==
    /\ reqPc[r] = "running"
    /\ reqPc' = [reqPc EXCEPT ![r] = "cancelled"]
    /\ UNCHANGED <<rlVars, reqUser, reqStream, reqAcquired, reqReleased, reqRecorded, reqOps>>

\* the request is cancelled (or its generator closed) at an await or a yield
\* of the try block: only the finally clause runs
ReqCancel(r) ==
    /\ reqPc[r] = "running"
    /\ ReqRelease(r, reqUser[r], rlConcurrent, "cancelled")
    /\ UNCHANGED <<rlBuilt, rlConfig, rlMinute, rlHour, rlNow, rlTicks, rlOps, rlLast,
                   reqUser, reqStream, reqAcquired, reqRecorded, reqOps>>

\* the consumer of process_question_stream resumes or closes the generator
\* at its last chunk: the finally clause runs
ReqResume(r) ==
    /\ reqPc[r] \in {"yield_error", "yield_final"}
    /\ ReqRelease(r, reqUser[r], rlConcurrent, "returned")
    /\ UNCHANGED <<rlBuilt, rlConfig, rlMinute, rlHour, rlNow, rlTicks, rlOps, rlLast,
                   reqUser, reqStream, reqAcquired, reqRecorded, reqOps>>

\* the caller has the response
ReqDone(r) ==
    /\ reqPc[r] \in {"rejected", "returned", "cancelled"}
    /\ reqPc' = [reqPc EXCEPT ![r] = "idle"]
    /\ reqUser' = [reqUser EXCEPT ![r] = 0]
    /\ reqStream' = [reqStream EXCEPT ![r] = FALSE]
    /\ reqAcquired' = [reqAcquired EXCEPT ![r] = 0]
    /\ reqReleased' = [reqReleased EXCEPT ![r] = 0]
    /\ reqRecorded' = [reqRecorded EXCEPT ![r] = 0]
    /\ UNCHANGED <<rlVars, reqOps>>

\* the requests that hold a slot: admitted and not yet out of the finally clause
InFlight == {r \in Requests : reqPc[r] \in {"running", "yield_error", "yield_final"}}

\* C7: every slot a request acquires is released exactly once on each exit
\* path: a request that has returned or was cancelled has acquired once and
\* released once, a rejected request has done neither, a request in flight
\* holds its slot, and when no request is in flight the concurrent counter
\* of every identity is 0.
C7_SlotReleasedOnce ==
    /\ \A r \in Requests :
          /\ reqPc[r] \in {"returned", "cancelled"}
                => reqAcquired[r] = 1 /\ reqReleased[r] = 1
          /\ reqPc[r] \in {"idle", "rejected"}
                => reqAcquired[r] = 0 /\ reqReleased[r] = 0
          /\ r \in InFlight => reqAcquired[r] = 1 /\ reqReleased[r] = 0
    /\ InFlight = {} => \A k \in StateKeys : rlConcurrent[k] = 0

\* a request was cancelled while it held a slot of an enabled limiter, another
\* failed, and every counter is back at 0
C7_Witness ==
    /\ rlConfig.enabled
    /\ InFlight = {}
    /\ \E r, q \in Requests :
          /\ reqPc[r] = "cancelled" /\ reqReleased[r] = 1
          /\ reqPc[q] = "returned" /\ reqRecorded[q] = 0 /\ reqReleased[q] = 1
    /\ \A k \in StateKeys : rlConcurrent[k] = 0

\* C8: every request the limiter admitted has, once it is over, raised the
\* request counter of its identity by exactly 1 (and the token counter by the
\* tokens_used it reports).
C8_AdmittedRequestCounted ==
    \A r \in Requests :
        (rlConfig.enabled /\ reqPc[r] \in {"returned", "cancelled"})
            => reqRecorded[r] = 1

\* the requests of identity i that check_limit admitted and that have not
\* yet handed their response to the caller
AdmittedOf(i) == {r \in Requests : reqUser[r] = i /\ reqAcquired[r] = 1}

\* C29: within one rate-limit window, the number of requests admitted for an
\* identity never exceeds the admission ceiling
\* int(requests_per_minute * burst_multiplier), including when the requests
\* overlap in time.  Stated for the first minute window, before the clock has
\* moved: every request admitted so far was admitted in that window.
C29_AdmittedWithinCeiling ==
    (rlConfig.enabled /\ rlTicks = 0) =>
        \A i \in Identifiers :
            Cardinality(AdmittedOf(i)) <= BurstCeiling(rlConfig.requests_per_minute)

NextReq ==
    \/ \E enabled \in BOOLEAN, rpm \in 1..MaxRpm :
          AInit(enabled, rpm) /\ UNCHANGED <<cbVars, tpVars, hmVars, msVars, pmVars, rsVars, arVars, evVars, wfVars, dtVars, smVars, fcVars, mwVars>>
    \/ \E r \in Requests, u \in Identifiers, stream, valid \in BOOLEAN :
          ReqStart(r, u, stream, valid) /\ UNCHANGED <<cbVars, tpVars, hmVars, msVars, pmVars, rsVars, arVars, evVars, wfVars, dtVars, smVars, fcVars, mwVars>>
    \/ \E r \in Requests : ReqSucceed(r) /\ UNCHANGED <<cbVars, tpVars, hmVars, msVars, pmVars, rsVars, arVars, evVars, wfVars, dtVars, smVars, fcVars, mwVars>>
    \/ \E r \in Requests : ReqFail(r) /\ UNCHANGED <<cbVars, tpVars, hmVars, msVars, pmVars, rsVars, arVars, evVars, wfVars, dtVars, smVars, fcVars, mwVars>>
    \/ \E r \in Requests : ReqCancel(r) /\ UNCHANGED <<cbVars, tpVars, hmVars, msVars, pmVars, rsVars, arVars, evVars, wfVars, dtVars, smVars, fcVars, mwVars>>
    \/ \E r \in Requests : ReqResume(r) /\ UNCHANGED <<cbVars, tpVars, hmVars, msVars, pmVars, rsVars, arVars, evVars, wfVars, dtVars, smVars, fcVars, mwVars>>
    \/ \E r \in Requests : ReqDone(r) /\ UNCHANGED <<cbVars, tpVars, hmVars, msVars, pmVars, rsVars, arVars, evVars, wfVars, dtVars, smVars, fcVars, mwVars>>
    \/ \E d \in TickSteps : RLTick(d) /\ UNCHANGED <<cbVars, tpVars, hmVars, msVars, reqVars, pmVars, rsVars, arVars, evVars, wfVars, dtVars, smVars, fcVars, mwVars>>

\* the limiters a request path can run over: every max_concurrent_requests
\* up to MaxSlots, per-user or global, the request limits at their defaults
SlotConfigs ==
    { [enabled |-> e, requests_per_minute |-> DefaultRequestsPerMinute,
       requests_per_hour |-> DefaultRequestsPerHour,
       tokens_per_minute |-> DefaultTokensPerMinute,
       max_concurrent_requests |-> n, per_user |-> p, burst |-> DefaultBurst] :
        e \in BOOLEAN, n \in 1..MaxSlots, p \in BOOLEAN }

\* RateLimiter(config) for the requests of process_question
SlotsInit(config) ==
    /\ RLInit(config)
    /\ UNCHANGED reqVars

\* the requests in flight whose slot is counted under key k
HoldersOf(k) == {r \in InFlight : StateKey(reqUser[r]) = k}

\* C27: for every identity, the number of concurrency slots held at once
\* never exceeds max_concurrent_requests, under any interleaving of requests
\* that each call check_limit and then acquire_concurrent_slot.
C27_SlotsWithinLimit ==
    rlConfig.enabled =>
        \A k \in StateKeys :
            /\ rlConcurrent[k] <= rlConfig.max_concurrent_requests
            /\ Cardinality(HoldersOf(k)) <= rlConfig.max_concurrent_requests

\* the limit is reached: one request holds the only slot of its identity
\* and another request of the same identity was rejected
C27_Witness ==
    /\ rlConfig.enabled
    /\ rlConfig.max_concurrent_requests = 1
    /\ \E r, q \in Requests :
          /\ r \in InFlight
          /\ reqPc[q] = "rejected"
          /\ StateKey(reqUser[q]) = StateKey(reqUser[r])
          /\ rlConcurrent[StateKey(reqUser[r])] = 1

NextSlots ==
    \/ \E config \in SlotConfigs : SlotsInit(config) /\ UNCHANGED <<cbVars, tpVars, hmVars, msVars, pmVars, rsVars, arVars, evVars, wfVars, dtVars, smVars, fcVars, mwVars>>
    \/ \E r \in Requests, u \in Identifiers, stream, valid \in BOOLEAN :
          ReqStart(r, u, stream, valid) /\ UNCHANGED <<cbVars, tpVars, hmVars, msVars, pmVars, rsVars, arVars, evVars, wfVars, dtVars, smVars, fcVars, mwVars>>
    \/ \E r \in Requests : ReqSucceed(r) /\ UNCHANGED <<cbVars, tpVars, hmVars, msVars, pmVars, rsVars, arVars, evVars, wfVars, dtVars, smVars, fcVars, mwVars>>
    \/ \E r \in Requests : ReqFail(r) /\ UNCHANGED <<cbVars, tpVars, hmVars, msVars, pmVars, rsVars, arVars, evVars, wfVars, dtVars, smVars, fcVars, mwVars>>
    \/ \E r \in Requests : ReqCancel(r) /\ UNCHANGED <<cbVars, tpVars, hmVars, msVars, pmVars, rsVars, arVars, evVars, wfVars, dtVars, smVars, fcVars, mwVars>>
    \/ \E r \in Requests : ReqResume(r) /\ UNCHANGED <<cbVars, tpVars, hmVars, msVars, pmVars, rsVars, arVars, evVars, wfVars, dtVars, smVars, fcVars, mwVars>>
    \/ \E r \in Requests : ReqDone(r) /\ UNCHANGED <<cbVars, tpVars, hmVars, msVars, pmVars, rsVars, arVars, evVars, wfVars, dtVars, smVars, fcVars, mwVars>>

(***************************************************************************)
(* ChatHistoryManager: save_thread and _persist_with_merge on the blob of  *)
(* one chat_id, with the messages and the metadata of the blob             *)
(***************************************************************************)
Writers == 1..NumWriters

\* a message stands for its (content, timestamp) pair, the key of the merge
Messages == 1..NumMessages

\* _message_count is absent
NoCount == -1

\* the message lists a thread can serialize to
RECURSIVE SeqsUpTo(_)
SeqsUpTo(n) ==
    IF n = 0 THEN {<<>>}
    ELSE LET shorter == SeqsUpTo(n - 1)
         IN  shorter \cup {Append(q, m) : q \in {x \in shorter : Len(x) = n - 1}, m \in Messages}

Range(q) == {q[i] : i \in 1..Len(q)}

\* no blob under the key
NoDoc == [present |-> FALSE, messages |-> <<>>, created_at |-> NoTime,
          updated_at |-> NoTime, message_count |-> NoCount, merge_count |-> 0]

NoChatSession == [present |-> FALSE, created_at |-> NoTime, message_count |-> 0]

PMUnbuilt ==
    /\ pmBuilt = FALSE
    /\ pmSession = NoChatSession
    /\ pmThread = <<>>
    /\ pmStore = NoDoc
    /\ pmWriter = "none"
    /\ pmPc = [w \in Writers |-> "idle"]
    /\ pmOp = [w \in Writers |-> None]
    /\ pmForce = [w \in Writers |-> FALSE]
    /\ pmData = [w \in Writers |-> NoDoc]
    /\ pmNow = 0
    /\ pmOps = 0
    /\ pmOthers = 0

\* ChatHistoryManager.__init__
PMInit ==
    /\ ~pmBuilt
    /\ pmBuilt' = TRUE
    /\ pmSession' = NoChatSession
    /\ UNCHANGED <<pmThread, pmStore, pmWriter, pmPc, pmOp, pmForce, pmData, pmNow,
                   pmOps, pmOthers>>

\* _create_new_session(chat_id): a new thread, created_at = now
PMCreateNewSession ==
    /\ pmBuilt
    /\ ~pmSession.present
    /\ pmSession' = [present |-> TRUE, created_at |-> pmNow, message_count |-> 0]
    /\ pmThread' = <<>>
    /\ UNCHANGED <<pmBuilt, pmStore, pmWriter, pmPc, pmOp, pmForce, pmData, pmNow,
                   pmOps, pmOthers>>

\* _restore_session(chat_id, thread_data) with the blob of the cold store:
\* the thread is deserialized from the messages, created_at and
\* message_count come from the metadata and default to now and 0
PMRestoreSession ==
    /\ pmBuilt
    /\ ~pmSession.present
    /\ pmStore.present
    /\ pmSession' = [present |-> TRUE,
                     created_at |-> IF pmStore.created_at = NoTime
                                      THEN pmNow ELSE pmStore.created_at,
                     message_count |-> IF pmStore.message_count = NoCount
                                         THEN 0 ELSE pmStore.message_count]
    /\ pmThread' = pmStore.messages
    /\ UNCHANGED <<pmBuilt, pmStore, pmWriter, pmPc, pmOp, pmForce, pmData, pmNow,
                   pmOps, pmOthers>>

\* an agent run appends a message to the thread
PMAgentAppend(m) ==
    /\ pmSession.present
    /\ Len(pmThread) < MaxThreadLen
    /\ pmThread' = Append(pmThread, m)
    /\ UNCHANGED <<pmBuilt, pmSession, pmStore, pmWriter, pmPc, pmOp, pmForce, pmData,
                   pmNow, pmOps, pmOthers>>

\* the messages of a list without the repeats of an earlier key
RECURSIVE Dedupe(_)
Dedupe(q) ==
    IF q = <<>> THEN <<>>
    ELSE LET front == Dedupe(SubSeq(q, 1, Len(q) - 1))
             last == q[Len(q)]
         IN  IF last \in Range(front) THEN front ELSE Append(front, last)

\* mutant: the merge keeps the messages of both blobs
MergeDocsConcatenates(existing, new) ==
    [present |-> TRUE,
     messages |-> existing.messages \o new.messages,
     created_at |-> existing.created_at,
     updated_at |-> new.updated_at,
     message_count |-> new.message_count,
     merge_count |-> existing.merge_count]

\* _merge_thread_data(existing, new): {**existing, **new}, the _created_at of
\* existing when it has one, and the messages of new unless new is shorter
MergeDocs(existing, new) ==
    [present |-> TRUE,
     messages |-> IF Len(new.messages) >= Len(existing.messages)
                    THEN new.messages
                    ELSE Dedupe(existing.messages \o new.messages),
     created_at |-> IF existing.created_at # NoTime
                      THEN existing.created_at ELSE new.created_at,
     updated_at |-> IF new.updated_at # NoTime
                      THEN new.updated_at ELSE existing.updated_at,
     message_count |-> IF new.message_count # NoCount
                         THEN new.message_count ELSE existing.message_count,
     merge_count |-> existing.merge_count]

\* the blob _persist_with_merge saves when persistence.get returned existing:
\* new_data itself when there is none, else the merge with _merge_count one
\* above that of existing (0 when existing has none)
PersistMerged(existing, new_data) ==
    IF existing.present
      THEN [MergeDocs(existing, new_data) EXCEPT !.merge_count = existing.merge_count + 1]
      ELSE new_data

\* save_thread(chat_id, thread, force_persist) or the try block of close()
\* for the session: up to await thread.serialize()
PMStart(w, op, force) ==
    /\ pmSession.present
    /\ pmPc[w] = "idle"
    /\ pmOps < MaxPMOps
    /\ pmOps' = pmOps + 1
    /\ pmOp' = [pmOp EXCEPT ![w] = op]
    /\ pmForce' = [pmForce EXCEPT ![w] = force]
    /\ pmPc' = [pmPc EXCEPT ![w] = "serialize"]
    /\ UNCHANGED <<pmBuilt, pmSession, pmThread, pmStore, pmWriter, pmData, pmNow, pmOthers>>

\* thread.serialize() has completed.  save_thread adds _created_at,
\* _message_count (after incrementing the session's) and _updated_at and
\* goes on to the cache; close() goes on to _persist_with_merge with the
\* bare payload.  An exception ends the operation.
PMSerialized(w, ok) ==
    /\ pmPc[w] = "serialize"
    /\ IF ~ok
         THEN /\ pmPc' = [pmPc EXCEPT ![w] = "returned"]
              /\ UNCHANGED <<pmSession, pmData>>
         ELSE IF pmOp[w] = "save"
           THEN /\ pmSession' = [pmSession EXCEPT !.message_count = @ + 1]
                /\ pmData' = [pmData EXCEPT ![w] =
                     [present |-> TRUE, messages |-> pmThread,
                      created_at |-> pmSession.created_at,
                      updated_at |-> pmNow,
                      message_count |-> pmSession.message_count + 1,
                      merge_count |-> 0]]
                /\ pmPc' = [pmPc EXCEPT ![w] = "cache_set"]
           ELSE /\ pmData' = [pmData EXCEPT ![w] =
                     [present |-> TRUE, messages |-> pmThread, created_at |-> NoTime,
                      updated_at |-> NoTime, message_count |-> NoCount,
                      merge_count |-> 0]]
                /\ pmPc' = [pmPc EXCEPT ![w] = "persist_get"]
                /\ UNCHANGED pmSession
    /\ UNCHANGED <<pmBuilt, pmThread, pmStore, pmWriter, pmOp, pmForce, pmNow, pmOps, pmOthers>>

\* save_thread: cached = await self._cache.set(...) has returned; the blob is
\* persisted when forced or when the cache refused it
PMCached(w, cached) ==
    /\ pmPc[w] = "cache_set"
    /\ pmPc' = [pmPc EXCEPT ![w] = IF pmForce[w] \/ ~cached THEN "persist_get" ELSE "returned"]
    /\ pmData' = [pmData EXCEPT ![w] = IF pmForce[w] \/ ~cached THEN @ ELSE NoDoc]
    /\ UNCHANGED <<pmBuilt, pmSession, pmThread, pmStore, pmWriter, pmOp, pmForce, pmNow,
                   pmOps, pmOthers>>

\* _persist_with_merge: existing = await self._persistence.get(chat_id) has
\* completed and the merge is done; an exception makes it return False
PMPersistGot(w, ok) ==
    /\ pmPc[w] = "persist_get"
    /\ IF ok
         THEN /\ pmData' = [pmData EXCEPT ![w] =
                   PersistMerged(pmStore, @)]
              /\ pmPc' = [pmPc EXCEPT ![w] = "persist_save"]
         ELSE /\ pmData' = [pmData EXCEPT ![w] = NoDoc]
              /\ pmPc' = [pmPc EXCEPT ![w] = "returned"]
    /\ UNCHANGED <<pmBuilt, pmSession, pmThread, pmStore, pmWriter, pmOp, pmForce, pmNow,
                   pmOps, pmOthers>>

\* _persist_with_merge: success = await self._persistence.save(chat_id,
\* merged) has completed
PMPersistSaved(w, success) ==
    /\ pmPc[w] = "persist_save"
    /\ pmStore' = IF success THEN pmData[w] ELSE pmStore
    /\ pmWriter' = IF success THEN "local" ELSE pmWriter
    /\ pmData' = [pmData EXCEPT ![w] = NoDoc]
    /\ pmPc' = [pmPc EXCEPT ![w] = "returned"]
    /\ UNCHANGED <<pmBuilt, pmSession, pmThread, pmOp, pmForce, pmNow, pmOps, pmOthers>>

\* the caller has the result
PMDone(w) ==
    /\ pmPc[w] = "returned"
    /\ pmPc' = [pmPc EXCEPT ![w] = "idle"]
    /\ pmOp' = [pmOp EXCEPT ![w] = None]
    /\ pmForce' = [pmForce EXCEPT ![w] = FALSE]
    /\ UNCHANGED <<pmBuilt, pmSession, pmThread, pmStore, pmWriter, pmData, pmNow,
                   pmOps, pmOthers>>

\* another node runs its own save_thread and _persist_with_merge for the
\* chat_id, without being interleaved: its blob was stamped by the same clock
PMOtherNodePersist(messages, created, updated, count) ==
    /\ pmBuilt
    /\ pmOthers < MaxOtherPersists
    /\ created <= updated
    /\ pmOthers' = pmOthers + 1
    /\ LET new == [present |-> TRUE, messages |-> messages, created_at |-> created,
                   updated_at |-> updated, message_count |-> count, merge_count |-> 0]
       IN  pmStore' = PersistMerged(pmStore, new)
    /\ pmWriter' = "other"
    /\ UNCHANGED <<pmBuilt, pmSession, pmThread, pmPc, pmOp, pmForce, pmData, pmNow, pmOps>>

\* time passes
PMTick ==
    /\ pmBuilt
    /\ pmNow < MaxPMTime
    /\ pmNow' = pmNow + 1
    /\ UNCHANGED <<pmBuilt, pmSession, pmThread, pmStore, pmWriter, pmPc, pmOp, pmForce,
                   pmData, pmOps, pmOthers>>

\* C11: when the cold store holds a blob written by another writer, every
\* message of that blob is still in the blob a persist-with-merge stores
\* over it.
C11_NoLostMessages ==
    [][(pmWriter = "other" /\ pmWriter' = "local")
         => Range(pmStore.messages) \subseteq Range(pmStore'.messages)]_vars

\* the step in which a local persist-with-merge stores its blob
PMStores(w) ==
    /\ pmPc[w] = "persist_save"
    /\ pmPc'[w] = "returned"
    /\ pmWriter' = "local"

\* C12: a blob that save_thread or persist-with-merge stores has
\* created_at <= updated_at, and its message count (the _message_count
\* metadata and the number of messages) is not lower than that of the blob
\* it replaces.
C12_BlobMonotone ==
    [][\A w \in Writers :
         PMStores(w) =>
           /\ (pmStore'.created_at # NoTime /\ pmStore'.updated_at # NoTime)
                 => pmStore'.created_at <= pmStore'.updated_at
           /\ (pmStore.present /\ pmStore.message_count # NoCount
                               /\ pmStore'.message_count # NoCount)
                 => pmStore'.message_count >= pmStore.message_count
           /\ pmStore.present => Len(pmStore'.messages) >= Len(pmStore.messages)]_vars

\* what a blob holds besides the bookkeeping of persistence
BlobContent(doc) == [doc EXCEPT !.merge_count = 0]

\* C24: persist-with-merge of a blob a over a store that already holds a
\* saves the content that persisting a alone saves, with _merge_count one
\* above that of the stored blob.
C24_PersistIdempotent ==
    [][\A w \in Writers :
         (/\ pmPc[w] = "persist_get"
          /\ pmPc'[w] = "persist_save"
          /\ pmStore.present
          /\ BlobContent(pmStore) = BlobContent(pmData[w]))
            => /\ BlobContent(pmData'[w]) = BlobContent(PersistMerged(NoDoc, pmData[w]))
               /\ pmData'[w].merge_count = pmStore.merge_count + 1]_vars

\* a persist-with-merge is about to save a blob it merged with an equal one
C24_Witness ==
    \E w \in Writers :
        /\ pmPc[w] = "persist_save"
        /\ pmStore.present
        /\ Len(pmStore.messages) > 0
        /\ BlobContent(pmStore) = BlobContent(pmData[w])
        /\ pmData[w].merge_count = pmStore.merge_count + 1

NextMerge ==
    \/ PMInit /\ UNCHANGED <<cbVars, tpVars, hmVars, msVars, rlVars, reqVars, rsVars, arVars, evVars, wfVars, dtVars, smVars, fcVars, mwVars>>
    \/ PMCreateNewSession /\ UNCHANGED <<cbVars, tpVars, hmVars, msVars, rlVars, reqVars, rsVars, arVars, evVars, wfVars, dtVars, smVars, fcVars, mwVars>>
    \/ PMRestoreSession /\ UNCHANGED <<cbVars, tpVars, hmVars, msVars, rlVars, reqVars, rsVars, arVars, evVars, wfVars, dtVars, smVars, fcVars, mwVars>>
    \/ \E m \in Messages : PMAgentAppend(m) /\ UNCHANGED <<cbVars, tpVars, hmVars, msVars, rlVars, reqVars, rsVars, arVars, evVars, wfVars, dtVars, smVars, fcVars, mwVars>>
    \/ \E w \in Writers, op \in {"save", "close"}, force \in BOOLEAN :
          PMStart(w, op, force) /\ UNCHANGED <<cbVars, tpVars, hmVars, msVars, rlVars, reqVars, rsVars, arVars, evVars, wfVars, dtVars, smVars, fcVars, mwVars>>
    \/ \E w \in Writers, ok \in BOOLEAN : PMSerialized(w, ok) /\ UNCHANGED <<cbVars, tpVars, hmVars, msVars, rlVars, reqVars, rsVars, arVars, evVars, wfVars, dtVars, smVars, fcVars, mwVars>>
    \/ \E w \in Writers, cached \in BOOLEAN : PMCached(w, cached) /\ UNCHANGED <<cbVars, tpVars, hmVars, msVars, rlVars, reqVars, rsVars, arVars, evVars, wfVars, dtVars, smVars, fcVars, mwVars>>
    \/ \E w \in Writers, ok \in BOOLEAN : PMPersistGot(w, ok) /\ UNCHANGED <<cbVars, tpVars, hmVars, msVars, rlVars, reqVars, rsVars, arVars, evVars, wfVars, dtVars, smVars, fcVars, mwVars>>
    \/ \E w \in Writers, success \in BOOLEAN : PMPersistSaved(w, success) /\ UNCHANGED <<cbVars, tpVars, hmVars, msVars, rlVars, reqVars, rsVars, arVars, evVars, wfVars, dtVars, smVars, fcVars, mwVars>>
    \/ \E w \in Writers : PMDone(w) /\ UNCHANGED <<cbVars, tpVars, hmVars, msVars, rlVars, reqVars, rsVars, arVars, evVars, wfVars, dtVars, smVars, fcVars, mwVars>>
    \/ \E q \in SeqsUpTo(MaxThreadLen), c, u \in 0..pmNow, n \in 1..MaxPMOps :
          PMOtherNodePersist(q, c, u, n) /\ UNCHANGED <<cbVars, tpVars, hmVars, msVars, rlVars, reqVars, rsVars, arVars, evVars, wfVars, dtVars, smVars, fcVars, mwVars>>
    \/ PMTick /\ UNCHANGED <<cbVars, tpVars, hmVars, msVars, rlVars, reqVars, rsVars, arVars, evVars, wfVars, dtVars, smVars, fcVars, mwVars>>

(***************************************************************************)
(* ChatHistoryManager: _validate_thread_data and _restore_session on the   *)
(* payloads a store can return                                             *)
(***************************************************************************)
\* the role of a message: absent, an allowed one, one that is not allowed
PayloadRoles == {"absent", "user", "admin"}

\* the type of the content of a message, "absent" when it has none
ContentTypes == {"absent", "str", "list", "NoneType", "int"}

\* the type of a metadata field, "absent" when the payload has none
MetaTypes == {"absent", "str", "int"}

\* an element of the messages list that is not a dictionary
NotADict == [isDict |-> FALSE, role |-> "absent", content |-> "absent"]

PayloadMessages ==
    {NotADict} \cup [isDict : {TRUE}, role : PayloadRoles, content : ContentTypes]

RECURSIVE PayloadLists(_)
PayloadLists(n) ==
    IF n = 0 THEN {<<>>}
    ELSE LET shorter == PayloadLists(n - 1)
         IN  shorter \cup {Append(q, m) : q \in {x \in shorter : Len(x) = n - 1},
                                           m \in PayloadMessages}

\* a truthy value read from a store.  messages: "absent", "list" or "other"
\* (a value that is not a list); list: the elements when it is a list; meta:
\* the type of the _created_at / _updated_at / _persisted_at field
NoPayload == [isDict |-> FALSE, messages |-> "absent", list |-> <<>>, meta |-> "absent"]

Payloads ==
    {NoPayload}
      \cup [isDict : {TRUE}, messages : {"absent", "other"}, list : {<<>>}, meta : MetaTypes]
      \cup [isDict : {TRUE}, messages : {"list"}, list : PayloadLists(MaxPayloadMsgs),
            meta : MetaTypes]

RSUnbuilt ==
    /\ rsBuilt = FALSE
    /\ rsMemory = [c \in Chats |-> "none"]
    /\ rsPc = "idle"
    /\ rsChat = NoChat
    /\ rsTier = "none"
    /\ rsPayload = NoPayload
    /\ rsRet = [chat_id |-> NoChat, thread |-> "none"]
    /\ rsPassed = FALSE
    /\ rsOps = 0

\* ChatHistoryManager.__init__(config, agent)
RSInit ==
    /\ ~rsBuilt
    /\ rsBuilt' = TRUE
    /\ rsMemory' = [c \in Chats |-> "none"]
    /\ UNCHANGED <<rsPc, rsChat, rsTier, rsPayload, rsRet, rsPassed, rsOps>>

\* mutant: the role of a message is not checked
ValidateSkipsRole(thread_data) ==
    /\ thread_data.isDict
    /\ thread_data.messages # "other"
    /\ \A i \in 1..Len(thread_data.list) :
          /\ thread_data.list[i].isDict
          /\ thread_data.list[i].content \in {"absent", "str", "list", "NoneType"}
    /\ thread_data.meta \in {"absent", "str", "NoneType"}

\* _validate_thread_data(thread_data)
ValidateThreadData(thread_data) ==
    /\ thread_data.isDict
    /\ thread_data.messages # "other"
    /\ \A i \in 1..Len(thread_data.list) :
          /\ thread_data.list[i].isDict
          /\ thread_data.list[i].role \in {"absent", "system", "user", "assistant",
                                           "tool", "function"}
          /\ thread_data.list[i].content \in {"absent", "str", "list", "NoneType"}
    /\ thread_data.meta \in {"absent", "str", "NoneType"}

\* _create_new_session(chat_id) and the return of get_or_create_thread
RSCreateNewSession(chat_id) ==
    /\ rsMemory' = [rsMemory EXCEPT ![chat_id] = "new"]
    /\ rsRet' = [chat_id |-> chat_id, thread |-> "new"]
    /\ rsPc' = "returned"

\* _restore_session(chat_id, thread_data) up to its suspension point: a
\* payload that fails the schema check gives a new session, another one is
\* stripped of its metadata and passed to deserialize_thread
RSRestoreSession(chat_id, thread_data) ==
    IF ValidateThreadData(thread_data)
      THEN /\ rsPc' = "deserialize"
           /\ rsPassed' = TRUE
           /\ UNCHANGED <<rsMemory, rsRet>>
      ELSE /\ RSCreateNewSession(chat_id)
           /\ rsPassed' = FALSE

\* get_or_create_thread(chat_id) for a chat_id that is not in memory: the
\* cache or, after a cache miss, the cold store returns a payload.  A payload
\* of the cache goes to _restore_session, one of the store is first written
\* to the cache.
RSPayloadRead(c, tier, payload) ==
    /\ rsBuilt
    /\ rsPc = "idle"
    /\ rsMemory[c] = "none"
    /\ rsOps < MaxRSOps
    /\ rsOps' = rsOps + 1
    /\ rsChat' = c
    /\ rsTier' = tier
    /\ rsPayload' = payload
    /\ IF tier = "cache"
         THEN RSRestoreSession(c, payload)
         ELSE /\ rsPc' = "cache_warm"
              /\ rsPassed' = FALSE
              /\ UNCHANGED <<rsMemory, rsRet>>
    /\ UNCHANGED rsBuilt

\* await self._cache.set(chat_id, persisted) has returned
RSCacheWarmed ==
    /\ rsPc = "cache_warm"
    /\ RSRestoreSession(rsChat, rsPayload)
    /\ UNCHANGED <<rsBuilt, rsChat, rsTier, rsPayload, rsOps>>

\* await self._agent.deserialize_thread(clean_data) has completed; ok is
\* FALSE when it, or the parse of _created_at after it, raised
RSDeserialized(ok) ==
    /\ rsPc = "deserialize"
    /\ IF ok
         THEN /\ rsMemory' = [rsMemory EXCEPT ![rsChat] = "restored"]
              /\ rsRet' = [chat_id |-> rsChat, thread |-> "restored"]
              /\ rsPc' = "returned"
         ELSE RSCreateNewSession(rsChat)
    /\ UNCHANGED <<rsBuilt, rsChat, rsTier, rsPayload, rsPassed, rsOps>>

\* the caller has the thread
RSDone ==
    /\ rsPc = "returned"
    /\ rsPc' = "idle"
    /\ rsChat' = NoChat
    /\ rsTier' = "none"
    /\ rsPayload' = NoPayload
    /\ rsRet' = [chat_id |-> NoChat, thread |-> "none"]
    /\ rsPassed' = FALSE
    /\ UNCHANGED <<rsBuilt, rsMemory, rsOps>>

\* the payload holds a message with a role outside the allowed set or a
\* content outside the allowed types
HasBadMessage(payload) ==
    /\ payload.isDict
    /\ \E i \in 1..Len(payload.list) :
          /\ payload.list[i].isDict
          /\ \/ payload.list[i].role = "admin"
             \/ payload.list[i].content = "int"

\* C13: a payload read from the cache or the cold store that holds a message
\* with a role outside the allowed set or a content outside the allowed
\* types is never passed to deserialize_thread, and the call returns a new
\* thread under the chat_id it was given.
C13_BadPayloadNeverDeserialized ==
    HasBadMessage(rsPayload) =>
        /\ ~rsPassed
        /\ rsPc # "deserialize"
        /\ rsPc = "returned" => rsRet = [chat_id |-> rsChat, thread |-> "new"]

\* a payload of the cold store with a bad role in its second message has
\* given a new thread
C13_Witness ==
    /\ rsPc = "returned"
    /\ rsTier = "store"
    /\ Len(rsPayload.list) = 2
    /\ rsPayload.list[1].role = "user" /\ rsPayload.list[1].content = "str"
    /\ rsPayload.list[2].role = "admin"
    /\ rsRet = [chat_id |-> rsChat, thread |-> "new"]

NextRestore ==
    \/ RSInit /\ UNCHANGED <<cbVars, tpVars, hmVars, msVars, rlVars, reqVars, pmVars, arVars, evVars, wfVars, dtVars, smVars, fcVars, mwVars>>
    \/ /\ rsPc = "idle"
       /\ \E c \in Chats, tier \in {"cache", "store"}, payload \in Payloads \ {NoPayload} :
             RSPayloadRead(c, tier, payload)
       /\ UNCHANGED <<cbVars, tpVars, hmVars, msVars, rlVars, reqVars, pmVars, arVars, evVars, wfVars, dtVars, smVars, fcVars, mwVars>>
    \/ RSCacheWarmed /\ UNCHANGED <<cbVars, tpVars, hmVars, msVars, rlVars, reqVars, pmVars, arVars, evVars, wfVars, dtVars, smVars, fcVars, mwVars>>
    \/ \E ok \in BOOLEAN : RSDeserialized(ok) /\ UNCHANGED <<cbVars, tpVars, hmVars, msVars, rlVars, reqVars, pmVars, arVars, evVars, wfVars, dtVars, smVars, fcVars, mwVars>>
    \/ RSDone /\ UNCHANGED <<cbVars, tpVars, hmVars, msVars, rlVars, reqVars, pmVars, arVars, evVars, wfVars, dtVars, smVars, fcVars, mwVars>>

(***************************************************************************)
(* AIAssistant.process_question and process_question_stream: thread,       *)
(* agent and chunks of a request (the limiter's verdict is an input)       *)
(***************************************************************************)
AgentRequests == 1..NumAgentRequests

\* the model argument: None, the registry's default name, another
\* registered name, a name the registry does not know
ModelArgs == {"None", "default", "other", "unknown"}

\* stop_after_attempt(3) of _call_agent
MaxAgentAttempts == 3

ARUnbuilt ==
    /\ arBuilt = FALSE
    /\ arSessions = [c \in Chats |-> NoThread]
    /\ arThreads = 0
    /\ arPc = [r \in AgentRequests |-> "idle"]
    /\ arChat = [r \in AgentRequests |-> NoChat]
    /\ arModel = [r \in AgentRequests |-> "None"]
    /\ arStream = [r \in AgentRequests |-> FALSE]
    /\ arThread = [r \in AgentRequests |-> NoThread]
    /\ arTransient = [r \in AgentRequests |-> FALSE]
    /\ arAgent = [r \in AgentRequests |-> "none"]
    /\ arAttempt = [r \in AgentRequests |-> 0]
    /\ arChunks = [r \in AgentRequests |-> <<>>]
    /\ arPath = [r \in AgentRequests |-> "none"]
    /\ arOps = 0

\* AIAssistant.initialize(): the default agent and the history manager exist
ARInit ==
    /\ ~arBuilt
    /\ arBuilt' = TRUE
    /\ arSessions' = [c \in Chats |-> NoThread]
    /\ UNCHANGED <<arThreads, arPc, arChat, arModel, arStream, arThread, arTransient,
                   arAgent, arAttempt, arChunks, arPath, arOps>>

\* the request ends on an exit path; a streaming request first yields the
\* chunk with done=True that the path produces, if any
AREnd(r, stream, path, chunk) ==
    /\ arPath' = [arPath EXCEPT ![r] = path]
    /\ IF stream /\ chunk
         THEN /\ arChunks' = [arChunks EXCEPT ![r] = Append(@, TRUE)]
              /\ arPc' = [arPc EXCEPT ![r] = "yield_last"]
         ELSE /\ arPc' = [arPc EXCEPT ![r] = "finished"]
              /\ UNCHANGED arChunks

\* the request starts: rate limiting (admitted is the limiter's verdict),
\* input validation, then await get_or_create_thread(chat_id).  A rejected
\* request returns the failure response or yields the error chunk; an
\* invalid question goes to the except clause.
ARStart(r, chat_id, model, stream, admitted, valid) ==
    /\ arBuilt
    /\ arPc[r] = "idle"
    /\ arOps < MaxAgentOps
    /\ arOps' = arOps + 1
    /\ arChat' = [arChat EXCEPT ![r] = chat_id]
    /\ arModel' = [arModel EXCEPT ![r] = IF stream THEN "None" ELSE model]
    /\ arStream' = [arStream EXCEPT ![r] = stream]
    /\ IF ~admitted THEN AREnd(r, stream, "rejected", TRUE)
       ELSE IF ~valid THEN AREnd(r, stream, "failure", TRUE)
       ELSE /\ arPc' = [arPc EXCEPT ![r] = "resolve"]
            /\ UNCHANGED <<arChunks, arPath>>
    /\ UNCHANGED <<arBuilt, arSessions, arThreads, arThread, arTransient, arAgent, arAttempt>>

\* get_or_create_thread has returned (calls are serialized by _session_lock:
\* one thread per chat_id), or has raised.  process_question then picks the
\* agent: for a model that is given and is not the default it builds a
\* ChatAgent over get_chat_client(model), which raises for an unknown name;
\* _call_agent then awaits self.agent.run(question, thread=thread).
\* process_question_stream iterates self.agent.run_stream.
ARThreadResolved(r, ok) ==
    /\ arPc[r] = "resolve"
    /\ LET c == arChat[r]
           known == c # NoChat /\ arSessions[c] # NoThread
           thread == IF known THEN arSessions[c] ELSE arThreads + 1
       IN  IF ~ok
             THEN /\ AREnd(r, arStream[r], "failure", TRUE)
                  /\ UNCHANGED <<arSessions, arThreads, arThread, arTransient, arAgent,
                                 arAttempt>>
             ELSE /\ arThreads' = IF known THEN arThreads ELSE arThreads + 1
                  /\ arSessions' = IF c # NoChat /\ ~known
                                     THEN [arSessions EXCEPT ![c] = thread]
                                     ELSE arSessions
                  /\ arThread' = [arThread EXCEPT ![r] = thread]
                  /\ IF arModel[r] = "unknown"
                       THEN /\ AREnd(r, FALSE, "failure", FALSE)
                            /\ UNCHANGED <<arTransient, arAgent, arAttempt>>
                       ELSE /\ arTransient' = [arTransient EXCEPT ![r] = arModel[r] = "other"]
                            /\ arAgent' = [arAgent EXCEPT ![r] = "default"]
                            /\ arAttempt' = [arAttempt EXCEPT ![r] = 1]
                            /\ arPc' = [arPc EXCEPT ![r] =
                                          IF arStream[r] THEN "streaming" ELSE "agent_run"]
                            /\ UNCHANGED <<arChunks, arPath>>
    /\ UNCHANGED <<arBuilt, arChat, arModel, arStream, arOps>>

\* process_question: the agent run has returned, save_thread has completed
\* and the limiter has recorded the request
ARAgentReturned(r) ==
    /\ arPc[r] = "agent_run"
    /\ arAgent' = [arAgent EXCEPT ![r] = "none"]
    /\ AREnd(r, FALSE, "success", FALSE)
    /\ UNCHANGED <<arBuilt, arSessions, arThreads, arChat, arModel, arStream, arThread,
                   arTransient, arAttempt, arOps>>

\* process_question: the agent run has raised.  A ConnectionError or
\* TimeoutError (transient) with attempts left makes _call_agent sleep and
\* run the agent again; anything else reaches the except clause.
ARAgentRaised(r, transient) ==
    /\ arPc[r] = "agent_run"
    /\ arAgent' = [arAgent EXCEPT ![r] = "none"]
    /\ IF transient /\ arAttempt[r] < MaxAgentAttempts
         THEN /\ arPc' = [arPc EXCEPT ![r] = "backoff"]
              /\ UNCHANGED <<arChunks, arPath>>
         ELSE AREnd(r, FALSE, "failure", FALSE)
    /\ UNCHANGED <<arBuilt, arSessions, arThreads, arChat, arModel, arStream, arThread,
                   arTransient, arAttempt, arOps>>

\* _call_agent: the backoff sleep is over, the next attempt starts
ARAgentRetry(r) ==
    /\ arPc[r] = "backoff"
    /\ arAttempt' = [arAttempt EXCEPT ![r] = @ + 1]
    /\ arAgent' = [arAgent EXCEPT ![r] = "default"]
    /\ arPc' = [arPc EXCEPT ![r] = "agent_run"]
    /\ UNCHANGED <<arBuilt, arSessions, arThreads, arChat, arModel, arStream, arThread,
                   arTransient, arChunks, arPath, arOps>>

\* process_question_stream: run_stream delivers an update; one with text is
\* yielded as a chunk with done=False
ARStreamUpdate(r, text) ==
    /\ arPc[r] = "streaming"
    /\ IF text
         THEN /\ Len(arChunks[r]) < MaxTextChunks
              /\ arChunks' = [arChunks EXCEPT ![r] = Append(@, FALSE)]
              /\ arPc' = [arPc EXCEPT ![r] = "yield_text"]
         ELSE UNCHANGED <<arChunks, arPc>>
    /\ UNCHANGED <<arBuilt, arSessions, arThreads, arChat, arModel, arStream, arThread,
                   arTransient, arAgent, arAttempt, arPath, arOps>>

\* the consumer asks for the next chunk
ARStreamResume(r) ==
    /\ arPc[r] \in {"yield_text", "yield_last"}
    /\ arPc' = [arPc EXCEPT ![r] = IF arPc[r] = "yield_text" THEN "streaming" ELSE "finished"]
    /\ arAgent' = [arAgent EXCEPT ![r] = IF arPc[r] = "yield_text" THEN @ ELSE "none"]
    /\ UNCHANGED <<arBuilt, arSessions, arThreads, arChat, arModel, arStream, arThread,
                   arTransient, arAttempt, arChunks, arPath, arOps>>

\* process_question_stream: run_stream is exhausted, save_thread has
\* completed, the request is recorded and the final chunk is yielded
ARStreamEnd(r) ==
    /\ arPc[r] = "streaming"
    /\ AREnd(r, TRUE, "success", TRUE)
    /\ UNCHANGED <<arBuilt, arSessions, arThreads, arChat, arModel, arStream, arThread,
                   arTransient, arAgent, arAttempt, arOps>>

\* mutant: the except clause of process_question_stream yields nothing
ARStreamFailSilent(r) ==
    /\ arPc[r] = "streaming"
    /\ AREnd(r, TRUE, "failure", FALSE)
    /\ UNCHANGED <<arBuilt, arSessions, arThreads, arChat, arModel, arStream, arThread,
                   arTransient, arAgent, arAttempt, arOps>>

\* process_question_stream: run_stream or save_thread raises; the except
\* clause yields the error chunk
ARStreamFail(r) ==
    /\ arPc[r] = "streaming"
    /\ AREnd(r, TRUE, "failure", TRUE)
    /\ UNCHANGED <<arBuilt, arSessions, arThreads, arChat, arModel, arStream, arThread,
                   arTransient, arAgent, arAttempt, arOps>>

\* the request is cancelled, or the consumer closes the generator, at a
\* suspension point: only the finally clause runs
ARCancel(r) ==
    /\ arPc[r] \in {"resolve", "agent_run", "backoff", "streaming", "yield_text"}
    /\ arAgent' = [arAgent EXCEPT ![r] = "none"]
    /\ AREnd(r, arStream[r], "cancelled", FALSE)
    /\ UNCHANGED <<arBuilt, arSessions, arThreads, arChat, arModel, arStream, arThread,
                   arTransient, arAttempt, arOps>>

\* the caller is done with the request
ARDone(r) ==
    /\ arPc[r] = "finished"
    /\ arPc' = [arPc EXCEPT ![r] = "idle"]
    /\ arChat' = [arChat EXCEPT ![r] = NoChat]
    /\ arModel' = [arModel EXCEPT ![r] = "None"]
    /\ arStream' = [arStream EXCEPT ![r] = FALSE]
    /\ arThread' = [arThread EXCEPT ![r] = NoThread]
    /\ arTransient' = [arTransient EXCEPT ![r] = FALSE]
    /\ arAttempt' = [arAttempt EXCEPT ![r] = 0]
    /\ arChunks' = [arChunks EXCEPT ![r] = <<>>]
    /\ arPath' = [arPath EXCEPT ![r] = "none"]
    /\ UNCHANGED <<arBuilt, arSessions, arThreads, arAgent, arOps>>

\* the agent is running on the request's thread
AgentRunning(r) == arPc[r] \in {"agent_run", "streaming", "yield_text"}

\* C14: for two concurrent requests with the same chat_id, the agent is
\* never running on their thread for both at the same time.
C14_AgentRunsSerialized ==
    \A r, q \in AgentRequests :
        (r # q /\ AgentRunning(r) /\ AgentRunning(q)) => arThread[r] # arThread[q]

\* C17: the chunk sequence of process_question_stream never has a chunk
\* after a done=True chunk, and on the success, rate-limited and failure
\* paths it ends with exactly one done=True chunk.
C17_OneFinalChunk ==
    \A r \in AgentRequests :
        arStream[r] =>
          /\ \A i \in 1..(Len(arChunks[r]) - 1) : ~arChunks[r][i]
          /\ (arPc[r] = "finished" /\ arPath[r] \in {"success", "rejected", "failure"})
                => (arChunks[r] # <<>> /\ arChunks[r][Len(arChunks[r])])

\* a stream that failed after a text chunk, one that was rejected and none
\* that are still running
C17_Witness ==
    \E r, q \in AgentRequests :
        /\ arStream[r] /\ arPc[r] = "finished" /\ arPath[r] = "failure"
        /\ arChunks[r] = <<FALSE, TRUE>>
        /\ arStream[q] /\ arPc[q] = "finished" /\ arPath[q] = "rejected"
        /\ arChunks[q] = <<TRUE>>

\* C19: when process_question is given a model name that differs from the
\* default, the agent run of the request is executed by the transient agent
\* built over that model's chat client.
C19_ModelOverrideUsed ==
    \A r \in AgentRequests :
        (arPc[r] = "agent_run" /\ arModel[r] = "other") => arAgent[r] = "transient"

NextAgent ==
    \/ ARInit /\ UNCHANGED <<cbVars, tpVars, hmVars, msVars, rlVars, reqVars, pmVars, rsVars, evVars, wfVars, dtVars, smVars, fcVars, mwVars>>
    \/ \E r \in AgentRequests, c \in Chats \cup {NoChat}, m \in ModelArgs,
          stream, admitted, valid \in BOOLEAN :
          ARStart(r, c, m, stream, admitted, valid) /\ UNCHANGED <<cbVars, tpVars, hmVars, msVars, rlVars, reqVars, pmVars, rsVars, evVars, wfVars, dtVars, smVars, fcVars, mwVars>>
    \/ \E r \in AgentRequests, ok \in BOOLEAN : ARThreadResolved(r, ok) /\ UNCHANGED <<cbVars, tpVars, hmVars, msVars, rlVars, reqVars, pmVars, rsVars, evVars, wfVars, dtVars, smVars, fcVars, mwVars>>
    \/ \E r \in AgentRequests : ARAgentReturned(r) /\ UNCHANGED <<cbVars, tpVars, hmVars, msVars, rlVars, reqVars, pmVars, rsVars, evVars, wfVars, dtVars, smVars, fcVars, mwVars>>
    \/ \E r \in AgentRequests, transient \in BOOLEAN : ARAgentRaised(r, transient) /\ UNCHANGED <<cbVars, tpVars, hmVars, msVars, rlVars, reqVars, pmVars, rsVars, evVars, wfVars, dtVars, smVars, fcVars, mwVars>>
    \/ \E r \in AgentRequests : ARAgentRetry(r) /\ UNCHANGED <<cbVars, tpVars, hmVars, msVars, rlVars, reqVars, pmVars, rsVars, evVars, wfVars, dtVars, smVars, fcVars, mwVars>>
    \/ \E r \in AgentRequests, text \in BOOLEAN : ARStreamUpdate(r, text) /\ UNCHANGED <<cbVars, tpVars, hmVars, msVars, rlVars, reqVars, pmVars, rsVars, evVars, wfVars, dtVars, smVars, fcVars, mwVars>>
    \/ \E r \in AgentRequests : ARStreamResume(r) /\ UNCHANGED <<cbVars, tpVars, hmVars, msVars, rlVars, reqVars, pmVars, rsVars, evVars, wfVars, dtVars, smVars, fcVars, mwVars>>
    \/ \E r \in AgentRequests : ARStreamEnd(r) /\ UNCHANGED <<cbVars, tpVars, hmVars, msVars, rlVars, reqVars, pmVars, rsVars, evVars, wfVars, dtVars, smVars, fcVars, mwVars>>
    \/ \E r \in AgentRequests : ARStreamFail(r) /\ UNCHANGED <<cbVars, tpVars, hmVars, msVars, rlVars, reqVars, pmVars, rsVars, evVars, wfVars, dtVars, smVars, fcVars, mwVars>>
    \/ \E r \in AgentRequests : ARCancel(r) /\ UNCHANGED <<cbVars, tpVars, hmVars, msVars, rlVars, reqVars, pmVars, rsVars, evVars, wfVars, dtVars, smVars, fcVars, mwVars>>
    \/ \E r \in AgentRequests : ARDone(r) /\ UNCHANGED <<cbVars, tpVars, hmVars, msVars, rlVars, reqVars, pmVars, rsVars, evVars, wfVars, dtVars, smVars, fcVars, mwVars>>

(***************************************************************************)
(* ConditionEvaluator (loaders/workflows.py)                               *)
(***************************************************************************)
\* Python values a field or a literal can have.  A string n is "a" repeated
\* n + 1 times, a list n is [n].
PyInt(n) == [k |-> "int", n |-> n]
PyStr(n) == [k |-> "str", n |-> n]
PyList(n) == [k |-> "list", n |-> n]
PyNone == [k |-> "none", n |-> 0]
PyValues ==
    {PyInt(n) : n \in 0..MaxInt} \cup {PyStr(n) : n \in 0..MaxStr}
        \cup {PyList(n) : n \in 0..MaxInt} \cup {PyNone}

\* literal texts on the value side of a comparison
Literals ==
    {[lit |-> "number", n |-> n] : n \in 0..MaxInt}
        \cup {[lit |-> "quoted", n |-> n] : n \in 0..MaxStr}
        \cup {[lit |-> "bare", n |-> n] : n \in 0..MaxStr}
        \cup {[lit |-> "list", n |-> n] : n \in 0..MaxInt}
        \cup {[lit |-> "null", n |-> 0]}

\* _parse_value
ParseValue(value_str) ==
    CASE value_str.lit = "quoted" -> PyStr(value_str.n)
      [] value_str.lit = "list" -> PyList(value_str.n)
      [] value_str.lit = "null" -> PyNone
      [] value_str.lit = "number" -> PyInt(value_str.n)
      [] OTHER -> PyStr(value_str.n)

\* OPERATORS
OperatorNames == {"==", "!=", ">", ">=", "<", "<=", "in", "not in", "contains"}

\* a condition without and/or: "output.x op value" (pattern 1),
\* "value in output.x" (pattern 2), or a text the pattern does not match
NoMatch == [form |-> "text", op |-> "", value |-> [lit |-> "null", n |-> 0]]
SimpleConditions ==
    {[form |-> "field_op_value", op |-> op, value |-> v] : op \in OperatorNames, v \in Literals}
        \cup {[form |-> "value_in_field", op |-> op, value |-> v] :
                  op \in {"in", "not in"}, v \in Literals}
        \cup {NoMatch}

\* the parts joined by and/or in the compound conditions explored
JoinedParts ==
    {[form |-> "field_op_value", op |-> op, value |-> [lit |-> "number", n |-> n]] :
         op \in {"==", ">"}, n \in 0..MaxInt} \cup {NoMatch}

\* condition arguments: None or "", a simple condition, two parts joined,
\* and the three-part text "A or B and C" (join "or_and")
EmptyCondition == [join |-> "empty", parts |-> <<>>]
Conditions ==
    {EmptyCondition}
        \cup {[join |-> "single", parts |-> <<c>>] : c \in SimpleConditions}
        \cup {[join |-> j, parts |-> <<c, d>>] : j \in {"and", "or"}, c, d \in JoinedParts}
        \cup {[join |-> "or_and", parts |-> <<a, b, c>>] : a, b, c \in JoinedParts}

\* output arguments.  type: dict or str; for a str, json is what json.loads
\* makes of it: a dict, another JSON value, a decode error, a ValueError
\* (an integer of more digits than int() converts), a RecursionError
\* (nesting deeper than the interpreter's limit).  x is the value of field
\* x of the dict (None when missing); word tells whether the output's text
\* contains the condition's text.
Outputs ==
    {[type |-> "dict", json |-> "dict", x |-> v, word |-> w] : v \in PyValues, w \in BOOLEAN}
        \cup {[type |-> "str", json |-> "dict", x |-> v, word |-> w] :
                  v \in PyValues, w \in BOOLEAN}
        \cup {[type |-> "str", json |-> j, x |-> PyNone, word |-> w] :
                  j \in {"value", "JSONDecodeError"}, w \in BOOLEAN}
        \cup {[type |-> "str", json |-> j, x |-> PyNone, word |-> FALSE] :
                  j \in {"ValueError", "RecursionError"}}

NoOutput == [type |-> "dict", json |-> "dict", x |-> PyNone, word |-> FALSE]

PyBool(b) == IF b THEN "true" ELSE "false"

\* a in b
PyIn(a, b) ==
    IF b.k = "str" THEN (IF a.k = "str" THEN PyBool(a.n <= b.n) ELSE "TypeError")
    ELSE IF b.k = "list" THEN PyBool(a.k = "int" /\ a.n = b.n)
    ELSE "TypeError"

\* op_func(a, b) of OPERATORS
OpFunc(op, a, b) ==
    LET ordered == a.k = b.k /\ a.k \in {"int", "str", "list"}
        isin == IF op = "contains" THEN PyIn(b, a) ELSE PyIn(a, b)
    IN  CASE op = "==" -> PyBool(a = b)
          [] op = "!=" -> PyBool(a # b)
          [] op = ">" -> IF ordered THEN PyBool(a.n > b.n) ELSE "TypeError"
          [] op = ">=" -> IF ordered THEN PyBool(a.n >= b.n) ELSE "TypeError"
          [] op = "<" -> IF ordered THEN PyBool(a.n < b.n) ELSE "TypeError"
          [] op = "<=" -> IF ordered THEN PyBool(a.n <= b.n) ELSE "TypeError"
          [] op = "not in" -> IF isin = "TypeError" THEN isin ELSE PyBool(isin = "false")
          [] OTHER -> isin

\* _get_field_value(output, "x"): None unless output is a dict
GetFieldValue(output) == IF output.json = "dict" THEN output.x ELSE PyNone

\* _evaluate_condition on a condition without and/or; the substring
\* fallback calls output.get, which a str does not have
EvaluateSimple(c, output) ==
    CASE c.form = "field_op_value" -> OpFunc(c.op, GetFieldValue(output), ParseValue(c.value))
      [] c.form = "value_in_field" -> OpFunc(c.op, ParseValue(c.value), GetFieldValue(output))
      [] OTHER -> IF output.json \in {"dict", "JSONDecodeError"}
                    THEN PyBool(output.word) ELSE "AttributeError"

\* _evaluate_condition on "c or d", a text without ' and ': any(...) over
\* the two parts, stopping at the first part that is true or raises
EvaluateAny(c, d, output) ==
    LET first == EvaluateSimple(c, output)
    IN  IF first \notin {"true", "false"} THEN first
        ELSE IF first = "true" THEN "true"
        ELSE EvaluateSimple(d, output)

\* _evaluate_condition: all(...) over the parts of an and, any(...) over the
\* parts of an or, each stopping at the first part that decides or raises.
\* The test for ' and ' comes first, so "A or B and C" is split at the and
\* into "A or B" and "C", and "A or B" is then split at the or.
EvaluateCondition(condition, output) ==
    LET first == EvaluateSimple(condition.parts[1], output)
    IN  IF condition.join = "or_and"
          THEN LET left == EvaluateAny(condition.parts[1], condition.parts[2], output)
               IN  IF left \notin {"true", "false"} THEN left
                   ELSE IF left = "false" THEN "false"
                   ELSE EvaluateSimple(condition.parts[3], output)
        ELSE IF condition.join = "single" THEN first
        ELSE IF first \notin {"true", "false"} THEN first
        ELSE IF condition.join = "and"
               THEN (IF first = "false" THEN "false"
                     ELSE EvaluateSimple(condition.parts[2], output))
        ELSE (IF first = "true" THEN "true"
              ELSE EvaluateSimple(condition.parts[2], output))

\* ConditionEvaluator.evaluate: json.loads runs outside the try block that
\* turns exceptions into False, and its except clause names
\* json.JSONDecodeError and TypeError only
Evaluate(condition, output) ==
    IF condition.join = "empty" THEN "true"
    ELSE IF output.type = "str" /\ output.json \in {"ValueError", "RecursionError"}
           THEN output.json
    ELSE LET r == EvaluateCondition(condition, output)
         IN  IF r \in {"true", "false"} THEN r ELSE "false"

EVUnbuilt ==
    /\ evBuilt = FALSE
    /\ evPc = "idle"
    /\ evCondition = EmptyCondition
    /\ evOutput = NoOutput
    /\ evResult = "none"

\* ConditionEvaluator()
EVInit ==
    /\ ~evBuilt
    /\ evBuilt' = TRUE
    /\ UNCHANGED <<evPc, evCondition, evOutput, evResult>>

\* evaluate(condition, output) is called and returns or raises
EVEvaluate(condition, output) ==
    /\ evBuilt
    /\ evPc = "idle"
    /\ evPc' = "returned"
    /\ evCondition' = condition
    /\ evOutput' = output
    /\ evResult' = Evaluate(condition, output)
    /\ UNCHANGED evBuilt

\* the caller has taken the result
EVDone ==
    /\ evPc = "returned"
    /\ evPc' = "idle"
    /\ evCondition' = EmptyCondition
    /\ evOutput' = NoOutput
    /\ evResult' = "none"
    /\ UNCHANGED evBuilt

\* C16: ConditionEvaluator.evaluate is total: every call returns true or
\* false and none raises, whatever the condition and the output are.
C16_EvaluateTotal ==
    evPc = "returned" => evResult \in {"true", "false"}

\* C40: in a condition that mixes 'and' and 'or', 'and' binds tighter than
\* 'or': a condition of the form A or B and C evaluates as A or (B and C).
\* Stated for the calls in which each of A, B and C evaluates to true or
\* false on its own.
C40_AndBindsTighter ==
    (evPc = "returned" /\ evCondition.join = "or_and") =>
        LET a == EvaluateSimple(evCondition.parts[1], evOutput)
            b == EvaluateSimple(evCondition.parts[2], evOutput)
            c == EvaluateSimple(evCondition.parts[3], evOutput)
        IN  (/\ {a, b, c} \subseteq {"true", "false"}
             /\ evResult \in {"true", "false"})
                => evResult = PyBool(a = "true" \/ (b = "true" /\ c = "true"))

NextEval ==
    \/ EVInit /\ UNCHANGED <<cbVars, tpVars, hmVars, msVars, rlVars, reqVars, pmVars, rsVars, arVars, wfVars, dtVars, smVars, fcVars, mwVars>>
    \/ /\ evBuilt /\ evPc = "idle"
       /\ \E condition \in Conditions, output \in Outputs : EVEvaluate(condition, output)
       /\ UNCHANGED <<cbVars, tpVars, hmVars, msVars, rlVars, reqVars, pmVars, rsVars, arVars, wfVars, dtVars, smVars, fcVars, mwVars>>
    \/ EVDone /\ UNCHANGED <<cbVars, tpVars, hmVars, msVars, rlVars, reqVars, pmVars, rsVars, arVars, wfVars, dtVars, smVars, fcVars, mwVars>>

(***************************************************************************)
(* WorkflowManager: edges of a custom workflow and evaluate_next_agent     *)
(***************************************************************************)
WorkflowAgents == {"A", "B", "C"}

\* conditions of the edges explored: none, output.x == 1, output.x >= 0
EdgeConditions ==
    {EmptyCondition,
     [join |-> "single",
      parts |-> <<[form |-> "field_op_value", op |-> "==",
                   value |-> [lit |-> "number", n |-> 1]]>>],
     [join |-> "single",
      parts |-> <<[form |-> "field_op_value", op |-> ">=",
                   value |-> [lit |-> "number", n |-> 0]]>>]}

\* edge entries of a workflow configuration
EdgeConfigs ==
    [from_agent : {"A", "B"}, to_agent : {"B", "C"}, condition : EdgeConditions,
     priority : 0..MaxPriority]

RECURSIVE EdgeLists(_)
EdgeLists(n) ==
    IF n = 0 THEN {<<>>}
    ELSE LET shorter == EdgeLists(n - 1)
         IN  shorter \cup {Append(s, e) : s \in {t \in shorter : Len(t) = n - 1},
                                          e \in EdgeConfigs}

\* agent outputs explored in routing
AgentOutputs ==
    {[type |-> "dict", json |-> "dict", x |-> PyInt(n), word |-> FALSE] : n \in 0..MaxInt}
        \cup {[type |-> "dict", json |-> "dict", x |-> PyNone, word |-> FALSE],
              [type |-> "str", json |-> "ValueError", x |-> PyNone, word |-> FALSE]}

\* sorted(conditional_edges, key=priority, reverse=True): a stable sort,
\* edges of equal priority keep their declaration order
RECURSIVE SortedByPriority(_)
SortedByPriority(edges) ==
    IF edges = <<>> THEN <<>>
    ELSE LET n == Len(edges)
             done == SortedByPriority(SubSeq(edges, 1, n - 1))
             e == edges[n]
             before == SelectSeq(done, LAMBDA d : d.priority >= e.priority)
             after == SelectSeq(done, LAMBDA d : d.priority < e.priority)
         IN  before \o <<e>> \o after

WFUnbuilt ==
    /\ wfBuilt = FALSE
    /\ wfCreated = FALSE
    /\ wfEdges = <<>>
    /\ wfPc = "idle"
    /\ wfCurrent = "None"
    /\ wfOutput = NoOutput
    /\ wfNext = "None"

\* WorkflowManager(chat_client)
WFInit ==
    /\ ~wfBuilt
    /\ wfBuilt' = TRUE
    /\ wfEdges' = <<>>
    /\ UNCHANGED <<wfCreated, wfPc, wfCurrent, wfOutput, wfNext>>

\* _create_custom_workflow: every edge endpoint is an agent of the workflow;
\* the edges are stored sorted by descending priority
WFCreateCustomWorkflow(edges_config) ==
    /\ wfBuilt
    /\ ~wfCreated
    /\ wfCreated' = TRUE
    /\ wfEdges' = SortedByPriority(edges_config)
    /\ UNCHANGED <<wfBuilt, wfPc, wfCurrent, wfOutput, wfNext>>

\* the for loop of evaluate_next_agent over the outgoing edges, then the
\* search for a default edge
RECURSIVE NextAgentLoop(_, _, _)
NextAgentLoop(rest, outgoing_edges, agent_output) ==
    IF rest = <<>>
      THEN LET defaults == SelectSeq(outgoing_edges,
                                     LAMBDA e : e.condition = EmptyCondition)
           IN  IF defaults # <<>> THEN defaults[1].to_agent ELSE "None"
      ELSE LET edge == Head(rest)
               r == Evaluate(edge.condition, agent_output)
           IN  IF edge.condition = EmptyCondition THEN edge.to_agent
               ELSE IF r = "true" THEN edge.to_agent
               ELSE IF r # "false" THEN r
               ELSE NextAgentLoop(Tail(rest), outgoing_edges, agent_output)

\* evaluate_next_agent(workflow_name, current_agent, agent_output)
EvaluateNextAgent(edges, current_agent, agent_output) ==
    LET outgoing_edges == SelectSeq(edges, LAMBDA e : e.from_agent = current_agent)
    IN  IF outgoing_edges = <<>> THEN "None"
        ELSE NextAgentLoop(outgoing_edges, outgoing_edges, agent_output)

\* a call of evaluate_next_agent returns or raises
WFEvaluateNextAgent(current_agent, agent_output) ==
    /\ wfCreated
    /\ wfPc = "idle"
    /\ wfPc' = "returned"
    /\ wfCurrent' = current_agent
    /\ wfOutput' = agent_output
    /\ wfNext' = EvaluateNextAgent(wfEdges, current_agent, agent_output)
    /\ UNCHANGED <<wfBuilt, wfCreated, wfEdges>>

\* the caller has taken the result
WFDone ==
    /\ wfPc = "returned"
    /\ wfPc' = "idle"
    /\ wfCurrent' = "None"
    /\ wfOutput' = NoOutput
    /\ wfNext' = "None"
    /\ UNCHANGED <<wfBuilt, wfCreated, wfEdges>>

\* C15: evaluate_next_agent returns the target of the first outgoing edge,
\* in priority order, whose condition evaluates true; the target of the
\* first edge without a condition only when no conditional edge of the
\* agent evaluates true; and none when the agent has no outgoing edge or
\* nothing applies.
C15_DefaultOnlyWhenNoConditionHolds ==
    (wfPc = "returned" /\ wfOutput.type = "dict") =>
        LET outgoing == SelectSeq(wfEdges, LAMBDA e : e.from_agent = wfCurrent)
            holding == SelectSeq(outgoing,
                                 LAMBDA e : /\ e.condition # EmptyCondition
                                            /\ Evaluate(e.condition, wfOutput) = "true")
            defaults == SelectSeq(outgoing, LAMBDA e : e.condition = EmptyCondition)
        IN  wfNext = IF holding # <<>> THEN holding[1].to_agent
                     ELSE IF defaults # <<>> THEN defaults[1].to_agent
                     ELSE "None"

NextWF ==
    \/ WFInit /\ UNCHANGED <<cbVars, tpVars, hmVars, msVars, rlVars, reqVars, pmVars, rsVars, arVars, evVars, dtVars, smVars, fcVars, mwVars>>
    \/ /\ wfBuilt /\ ~wfCreated
       /\ \E edges_config \in EdgeLists(MaxEdges) : WFCreateCustomWorkflow(edges_config)
       /\ UNCHANGED <<cbVars, tpVars, hmVars, msVars, rlVars, reqVars, pmVars, rsVars, arVars, evVars, dtVars, smVars, fcVars, mwVars>>
    \/ \E current_agent \in WorkflowAgents, agent_output \in AgentOutputs :
          WFEvaluateNextAgent(current_agent, agent_output) /\ UNCHANGED <<cbVars, tpVars, hmVars, msVars, rlVars, reqVars, pmVars, rsVars, arVars, evVars, dtVars, smVars, fcVars, mwVars>>
    \/ WFDone /\ UNCHANGED <<cbVars, tpVars, hmVars, msVars, rlVars, reqVars, pmVars, rsVars, arVars, evVars, dtVars, smVars, fcVars, mwVars>>

(***************************************************************************)
(* D365MCPTool.call_tool: retries and token refresh (mcp/d365_tool.py)     *)
(***************************************************************************)
\* status codes of the HTTPStatusError an attempt can raise
StatusCodes == {401, 429, 500}

DTUnbuilt ==
    /\ dtBuilt = FALSE
    /\ dtMaxRetries = 0
    /\ dtPc = "idle"
    /\ dtAttempt = 0
    /\ dtOutcome = "none"
    /\ dtUnauthorized = 0
    /\ dtRefreshes = 0

\* D365MCPTool(max_retries=...) and connect()
DTInit(max_retries) ==
    /\ ~dtBuilt
    /\ dtBuilt' = TRUE
    /\ dtMaxRetries' = max_retries
    /\ UNCHANGED <<dtPc, dtAttempt, dtOutcome, dtUnauthorized, dtRefreshes>>

\* call_tool: the circuit breaker either rejects the call or runs
\* _execute_with_retry, whose first attempt awaits _execute_tool_call
DTCallTool(open) ==
    /\ dtBuilt
    /\ dtPc = "idle"
    /\ dtAttempt' = 0
    /\ dtUnauthorized' = 0
    /\ dtRefreshes' = 0
    /\ IF open
         THEN dtPc' = "done" /\ dtOutcome' = "CircuitBreakerOpen"
         ELSE dtPc' = "attempting" /\ dtOutcome' = "none"
    /\ UNCHANGED <<dtBuilt, dtMaxRetries>>

\* the attempt returns the tool's result
DTAttemptReturned ==
    /\ dtPc = "attempting"
    /\ dtPc' = "done"
    /\ dtOutcome' = "result"
    /\ UNCHANGED <<dtBuilt, dtMaxRetries, dtAttempt, dtUnauthorized, dtRefreshes>>

\* the attempt raises HTTPStatusError: on 401 with attempts left the tool
\* awaits refresh_token; on 429 with attempts left it sleeps Retry-After;
\* otherwise the error is raised
DTAttemptStatus(status_code) ==
    /\ dtPc = "attempting"
    /\ dtUnauthorized' = IF status_code = 401 THEN dtUnauthorized + 1 ELSE dtUnauthorized
    /\ IF status_code = 401 /\ dtAttempt < dtMaxRetries
         THEN /\ dtPc' = "refreshing"
              /\ dtRefreshes' = dtRefreshes + 1
              /\ UNCHANGED dtOutcome
       ELSE IF status_code = 429 /\ dtAttempt < dtMaxRetries
         THEN /\ dtPc' = "sleeping"
              /\ UNCHANGED <<dtOutcome, dtRefreshes>>
       ELSE /\ dtPc' = "done"
            /\ dtOutcome' = "HTTPStatusError"
            /\ UNCHANGED dtRefreshes
    /\ UNCHANGED <<dtBuilt, dtMaxRetries, dtAttempt>>

\* mutant: a transient error is retried whether or not attempts are left
DTAttemptTransientAlwaysRetries ==
    /\ dtPc = "attempting"
    /\ dtPc' = "sleeping"
    /\ UNCHANGED <<dtBuilt, dtMaxRetries, dtAttempt, dtOutcome, dtUnauthorized, dtRefreshes>>

\* the attempt raises ConnectionError, TimeoutError or OSError: backoff
\* sleep with attempts left, else the error is raised
DTAttemptTransient ==
    /\ dtPc = "attempting"
    /\ IF dtAttempt < dtMaxRetries
         THEN dtPc' = "sleeping" /\ UNCHANGED dtOutcome
         ELSE dtPc' = "done" /\ dtOutcome' = "ConnectionError"
    /\ UNCHANGED <<dtBuilt, dtMaxRetries, dtAttempt, dtUnauthorized, dtRefreshes>>

\* refresh_token has put the new token in the client's headers (the next
\* attempt starts), or the token provider raised (the error leaves call_tool)
DTRefreshed(ok) ==
    /\ dtPc = "refreshing"
    /\ IF ok
         THEN /\ dtAttempt' = dtAttempt + 1
              /\ dtPc' = "attempting"
              /\ UNCHANGED dtOutcome
         ELSE /\ dtPc' = "done"
              /\ dtOutcome' = "TokenError"
              /\ UNCHANGED dtAttempt
    /\ UNCHANGED <<dtBuilt, dtMaxRetries, dtUnauthorized, dtRefreshes>>

\* the sleep is over, the next attempt starts
DTSleepOver ==
    /\ dtPc = "sleeping"
    /\ dtAttempt' = dtAttempt + 1
    /\ dtPc' = "attempting"
    /\ UNCHANGED <<dtBuilt, dtMaxRetries, dtOutcome, dtUnauthorized, dtRefreshes>>

\* the caller has the result or the exception
DTDone ==
    /\ dtPc = "done"
    /\ dtPc' = "idle"
    /\ dtAttempt' = 0
    /\ dtOutcome' = "none"
    /\ dtUnauthorized' = 0
    /\ dtRefreshes' = 0
    /\ UNCHANGED <<dtBuilt, dtMaxRetries>>

\* C18: during one call_tool request the token is refreshed at most once,
\* and exactly once when an attempt with retries left returned 401, however
\* many attempts return 401.
C18_OneRefreshPerRequest ==
    /\ dtRefreshes <= 1
    /\ (dtPc = "done" /\ dtUnauthorized > 0 /\ dtMaxRetries > 0) => dtRefreshes = 1

NextTool ==
    \/ \E max_retries \in 0..MaxRetries : DTInit(max_retries) /\ UNCHANGED <<cbVars, tpVars, hmVars, msVars, rlVars, reqVars, pmVars, rsVars, arVars, evVars, wfVars, smVars, fcVars, mwVars>>
    \/ \E open \in BOOLEAN : DTCallTool(open) /\ UNCHANGED <<cbVars, tpVars, hmVars, msVars, rlVars, reqVars, pmVars, rsVars, arVars, evVars, wfVars, smVars, fcVars, mwVars>>
    \/ DTAttemptReturned /\ UNCHANGED <<cbVars, tpVars, hmVars, msVars, rlVars, reqVars, pmVars, rsVars, arVars, evVars, wfVars, smVars, fcVars, mwVars>>
    \/ \E status_code \in StatusCodes : DTAttemptStatus(status_code) /\ UNCHANGED <<cbVars, tpVars, hmVars, msVars, rlVars, reqVars, pmVars, rsVars, arVars, evVars, wfVars, smVars, fcVars, mwVars>>
    \/ DTAttemptTransient /\ UNCHANGED <<cbVars, tpVars, hmVars, msVars, rlVars, reqVars, pmVars, rsVars, arVars, evVars, wfVars, smVars, fcVars, mwVars>>
    \/ \E ok \in BOOLEAN : DTRefreshed(ok) /\ UNCHANGED <<cbVars, tpVars, hmVars, msVars, rlVars, reqVars, pmVars, rsVars, arVars, evVars, wfVars, smVars, fcVars, mwVars>>
    \/ DTSleepOver /\ UNCHANGED <<cbVars, tpVars, hmVars, msVars, rlVars, reqVars, pmVars, rsVars, arVars, evVars, wfVars, smVars, fcVars, mwVars>>
    \/ DTDone /\ UNCHANGED <<cbVars, tpVars, hmVars, msVars, rlVars, reqVars, pmVars, rsVars, arVars, evVars, wfVars, smVars, fcVars, mwVars>>

(***************************************************************************)
(* ChatHistoryManager.summarize_if_needed (memory/manager.py)              *)
(***************************************************************************)
\* a thread object: its identity, its number of messages, and whether its
\* first message is a conversation summary
SumThread(id, len, summary) == [id |-> id, len |-> len, summary |-> summary]

NoSumSession ==
    [present |-> FALSE, thread |-> SumThread(0, 0, FALSE), message_count |-> 0,
     summarized |-> FALSE, summary_count |-> 0, estimated_tokens |-> 0]

SMUnbuilt ==
    /\ smBuilt = FALSE
    /\ smConfig = [enabled |-> FALSE, max_tokens |-> 0, recent_messages_to_keep |-> 0,
                   agent |-> FALSE, has_deserialize |-> FALSE]
    /\ smSession = NoSumSession
    /\ smThreads = 0
    /\ smPc = "idle"
    /\ smKept = 0
    /\ smRet = "none"
    /\ smBefore = NoSumSession
    /\ smFailed = "none"
    /\ smOps = 0

\* ChatHistoryManager(config, agent)
SMInit(config) ==
    /\ ~smBuilt
    /\ smBuilt' = TRUE
    /\ smConfig' = config
    /\ UNCHANGED <<smSession, smThreads, smPc, smKept, smRet, smBefore, smFailed, smOps>>

\* _create_new_session for the chat
SMCreateNewSession ==
    /\ smBuilt
    /\ smConfig.agent
    /\ ~smSession.present
    /\ smPc = "idle"
    /\ smThreads' = smThreads + 1
    /\ smSession' = [NoSumSession EXCEPT !.present = TRUE,
                                         !.thread = SumThread(smThreads + 1, 0, FALSE)]
    /\ UNCHANGED <<smBuilt, smConfig, smPc, smKept, smRet, smBefore, smFailed, smOps>>

\* a request of the chat: the agent run appends to the thread and
\* save_thread counts it
SMAgentAppend ==
    /\ smSession.present
    /\ smPc = "idle"
    /\ smSession.thread.len < MaxSumLen
    /\ smSession' = [smSession EXCEPT !.thread.len = @ + 1, !.message_count = @ + 1]
    /\ UNCHANGED <<smBuilt, smConfig, smThreads, smPc, smKept, smRet, smBefore, smFailed, smOps>>

\* estimate_thread_tokens: one token per message
EstimateThreadTokens(thread) == thread.len

\* the call returns ret, failed names the step that failed
SMReturn(session, ret, failed) ==
    /\ smSession' = session
    /\ smRet' = ret
    /\ smFailed' = failed
    /\ smPc' = "returned"

\* summarize_if_needed up to its first await: needs_summarization stores
\* the estimate in the session; then the agent is chosen and the thread's
\* serialize() is awaited
SMSummarizeIfNeeded(summarizer_agent) ==
    /\ smBuilt
    /\ smPc = "idle"
    /\ smOps < MaxSumOps
    /\ smOps' = smOps + 1
    /\ smBefore' = smSession
    /\ smKept' = 0
    /\ IF ~smConfig.enabled \/ ~smSession.present
         THEN SMReturn(smSession, "False", "none")
         ELSE LET estimated_tokens == EstimateThreadTokens(smSession.thread)
                  session == [smSession EXCEPT !.estimated_tokens = estimated_tokens]
              IN  IF estimated_tokens <= smConfig.max_tokens
                    THEN SMReturn(session, "False", "none")
                  ELSE IF ~(summarizer_agent \/ smConfig.agent)
                    THEN SMReturn(session, "False", "none")
                  ELSE /\ smSession' = session
                       /\ smPc' = "serialize"
                       /\ UNCHANGED <<smRet, smFailed>>
    /\ UNCHANGED <<smBuilt, smConfig, smThreads>>

\* serialize() has returned or raised; with more messages than are kept the
\* old ones go to _generate_summary, which awaits the agent
SMSerialized(ok) ==
    /\ smPc = "serialize"
    /\ IF ~ok THEN SMReturn(smSession, "False", "serialization") /\ UNCHANGED smKept
       ELSE IF smSession.thread.len <= smConfig.recent_messages_to_keep
         THEN SMReturn(smSession, "False", "none") /\ UNCHANGED smKept
       ELSE /\ smKept' = smConfig.recent_messages_to_keep
            /\ smPc' = "summary"
            /\ UNCHANGED <<smSession, smRet, smFailed>>
    /\ UNCHANGED <<smBuilt, smConfig, smThreads, smBefore, smOps>>

\* session.thread = new_thread and what follows it up to the await of
\* save_thread
SMInstall(new_thread, failed) ==
    /\ smSession' = [smSession EXCEPT !.thread = new_thread,
                                      !.summarized = TRUE,
                                      !.summary_count = @ + 1]
    /\ smFailed' = failed
    /\ smPc' = "save"
    /\ UNCHANGED smRet

\* _generate_summary has returned a summary (ok) or None.  Then
\* _create_summarized_thread: self._agent.get_new_thread() may raise (None is
\* returned); with deserialize_thread it is awaited, without it the new,
\* empty thread is returned.  truthy is the truth value of that thread.
SMSummaryGenerated(ok, new_ok, truthy) ==
    /\ smPc = "summary"
    /\ IF ~ok THEN SMReturn(smSession, "False", "summary") /\ UNCHANGED smThreads
       ELSE IF ~smConfig.agent \/ ~new_ok
         THEN SMReturn(smSession, "False", "construction") /\ UNCHANGED smThreads
       ELSE /\ smThreads' = smThreads + 1
            /\ IF smConfig.has_deserialize
                 THEN /\ smPc' = "deserialize"
                      /\ UNCHANGED <<smSession, smRet, smFailed>>
               ELSE IF truthy
                 THEN SMInstall(SumThread(smThreads + 1, 0, FALSE), "none")
               ELSE SMReturn(smSession, "False", "none")
    /\ UNCHANGED <<smBuilt, smConfig, smKept, smBefore, smOps>>

\* deserialize_thread has returned the summarized thread, or has raised:
\* then the new, empty thread is returned in its place
SMDeserialized(ok, truthy) ==
    /\ smPc = "deserialize"
    /\ IF ok
         THEN /\ smThreads' = smThreads + 1
              /\ SMInstall(SumThread(smThreads + 1, smKept + 1, TRUE), "none")
       ELSE IF truthy
         THEN /\ SMInstall(SumThread(smThreads, 0, FALSE), "construction")
              /\ UNCHANGED smThreads
       ELSE /\ SMReturn(smSession, "False", "construction")
            /\ UNCHANGED smThreads
    /\ UNCHANGED <<smBuilt, smConfig, smKept, smBefore, smOps>>

\* save_thread has completed (it counts the save when serialize() worked and
\* catches what is raised); the new estimate is stored and True returned
SMSaved(ok) ==
    /\ smPc = "save"
    /\ LET counted == IF ok THEN [smSession EXCEPT !.message_count = @ + 1] ELSE smSession
       IN  SMReturn([counted EXCEPT !.estimated_tokens = EstimateThreadTokens(counted.thread)],
                    "True", smFailed)
    /\ UNCHANGED <<smBuilt, smConfig, smThreads, smKept, smBefore, smOps>>

\* the caller has the result
SMDone ==
    /\ smPc = "returned"
    /\ smPc' = "idle"
    /\ smRet' = "none"
    /\ smFailed' = "none"
    /\ smBefore' = NoSumSession
    /\ smKept' = 0
    /\ UNCHANGED <<smBuilt, smConfig, smSession, smThreads, smOps>>

SumConfigs ==
    [enabled : BOOLEAN, max_tokens : 0..MaxSumTokens, recent_messages_to_keep : 0..MaxKeep,
     agent : BOOLEAN, has_deserialize : BOOLEAN]

\* C20: when a step of summarize_if_needed has failed (serialization,
\* summary generation, construction of the summarized thread), the call
\* returns false and the session has its original thread and the same value
\* in every field as when the call started.
C20_FailureLeavesSession ==
    (smPc = "returned" /\ smFailed # "none") =>
        /\ smRet = "False"
        /\ smSession = smBefore

\* C21: a save_thread that leaves the thread's estimated tokens above
\* max_tokens, with summarization enabled, has summarization run for the
\* chat: the step that counts the save also starts summarize_if_needed.
C21_SaveTriggersSummarization ==
    [][(/\ smPc = "idle"
        /\ smSession.present
        /\ smSession'.message_count = smSession.message_count + 1
        /\ smConfig.enabled
        /\ EstimateThreadTokens(smSession'.thread) > smConfig.max_tokens)
          => smPc' # "idle"]_vars

\* C22: when summarize_if_needed returns true, the session's
\* estimated_tokens is strictly lower than the estimate of the thread the
\* call started with.
C22_SummaryReducesTokens ==
    (smPc = "returned" /\ smRet = "True") =>
        smSession.estimated_tokens < EstimateThreadTokens(smBefore.thread)

NextSum ==
    \/ \E config \in SumConfigs : SMInit(config) /\ UNCHANGED <<cbVars, tpVars, hmVars, msVars, rlVars, reqVars, pmVars, rsVars, arVars, evVars, wfVars, dtVars, fcVars, mwVars>>
    \/ SMCreateNewSession /\ UNCHANGED <<cbVars, tpVars, hmVars, msVars, rlVars, reqVars, pmVars, rsVars, arVars, evVars, wfVars, dtVars, fcVars, mwVars>>
    \/ SMAgentAppend /\ UNCHANGED <<cbVars, tpVars, hmVars, msVars, rlVars, reqVars, pmVars, rsVars, arVars, evVars, wfVars, dtVars, fcVars, mwVars>>
    \/ \E summarizer_agent \in BOOLEAN : SMSummarizeIfNeeded(summarizer_agent) /\ UNCHANGED <<cbVars, tpVars, hmVars, msVars, rlVars, reqVars, pmVars, rsVars, arVars, evVars, wfVars, dtVars, fcVars, mwVars>>
    \/ \E ok \in BOOLEAN : SMSerialized(ok) /\ UNCHANGED <<cbVars, tpVars, hmVars, msVars, rlVars, reqVars, pmVars, rsVars, arVars, evVars, wfVars, dtVars, fcVars, mwVars>>
    \/ \E ok, new_ok, truthy \in BOOLEAN : SMSummaryGenerated(ok, new_ok, truthy) /\ UNCHANGED <<cbVars, tpVars, hmVars, msVars, rlVars, reqVars, pmVars, rsVars, arVars, evVars, wfVars, dtVars, fcVars, mwVars>>
    \/ \E ok, truthy \in BOOLEAN : SMDeserialized(ok, truthy) /\ UNCHANGED <<cbVars, tpVars, hmVars, msVars, rlVars, reqVars, pmVars, rsVars, arVars, evVars, wfVars, dtVars, fcVars, mwVars>>
    \/ \E ok \in BOOLEAN : SMSaved(ok) /\ UNCHANGED <<cbVars, tpVars, hmVars, msVars, rlVars, reqVars, pmVars, rsVars, arVars, evVars, wfVars, dtVars, fcVars, mwVars>>
    \/ SMDone /\ UNCHANGED <<cbVars, tpVars, hmVars, msVars, rlVars, reqVars, pmVars, rsVars, arVars, evVars, wfVars, dtVars, fcVars, mwVars>>

(***************************************************************************)
(* MCPSessionManager.update_form_context / clear_form_context              *)
(* (mcp/session.py)                                                        *)
(***************************************************************************)
\* keys of form_context: form names a caller can pass, two of which are the
\* keys update_form_context itself writes
FormKeys == {"SalesOrder", "_active_form", "_last_update"}

\* values under a key: no entry, a dict of fields (field a with its value,
\* 0 when the dict has no field), the name of a form, a timestamp
NoEntry == [kind |-> "absent", a |-> 0, name |-> "", at |-> 0]
FieldDict(a) == [kind |-> "dict", a |-> a, name |-> "", at |-> 0]
FormNameEntry(f) == [kind |-> "str", a |-> 0, name |-> f, at |-> 0]
TimeEntry(now) == [kind |-> "str", a |-> 0, name |-> "", at |-> now]

EmptyFormContext == [k \in FormKeys |-> NoEntry]

FCUnbuilt ==
    /\ fcBuilt = FALSE
    /\ fcContext = EmptyFormContext
    /\ fcPc = "idle"
    /\ fcOp = "none"
    /\ fcForm = ""
    /\ fcData = 0
    /\ fcRet = "none"
    /\ fcBefore = EmptyFormContext

\* get_or_create_session has created the session: form_context is {}
FCCreate ==
    /\ ~fcBuilt
    /\ fcBuilt' = TRUE
    /\ fcContext' = EmptyFormContext
    /\ UNCHANGED <<fcPc, fcOp, fcForm, fcData, fcRet, fcBefore>>

\* lines 320-326 of update_form_context on form_context; field_data is 0
\* for the empty map, else {a: field_data}
UpdateFormContext(form_context, form_name, field_data, now) ==
    LET created == IF form_context[form_name].kind = "absent"
                     THEN [form_context EXCEPT ![form_name] = FieldDict(0)]
                     ELSE form_context
        updated == [created EXCEPT ![form_name] =
                        FieldDict(IF field_data = 0 THEN created[form_name].a
                                  ELSE field_data)]
        active == [updated EXCEPT !["_active_form"] = FormNameEntry(form_name)]
    IN  IF created[form_name].kind # "dict" THEN form_context
        ELSE [active EXCEPT !["_last_update"] = TimeEntry(now)]

\* update_form_context(session_id, form_name, field_data): False for an
\* unknown session_id; AttributeError when the value under form_name is a
\* str; else the context is updated, the session saved and True returned
FCUpdateFormContext(known, form_name, field_data, now) ==
    /\ fcBuilt
    /\ fcPc = "idle"
    /\ fcPc' = "returned"
    /\ fcOp' = "update"
    /\ fcForm' = form_name
    /\ fcData' = field_data
    /\ fcBefore' = fcContext
    /\ IF ~known
         THEN fcRet' = "False" /\ UNCHANGED fcContext
         ELSE /\ fcContext' = UpdateFormContext(fcContext, form_name, field_data, now)
              /\ fcRet' = IF fcContext[form_name].kind = "str"
                            THEN "AttributeError" ELSE "True"
    /\ UNCHANGED fcBuilt

\* clear_form_context(session_id, form_name): "" stands for form_name None
FCClearFormContext(form_name) ==
    /\ fcBuilt
    /\ fcPc = "idle"
    /\ fcPc' = "returned"
    /\ fcOp' = "clear"
    /\ fcForm' = form_name
    /\ fcData' = 0
    /\ fcBefore' = fcContext
    /\ fcRet' = "True"
    /\ fcContext' =
          IF form_name = "" THEN EmptyFormContext
          ELSE LET popped == [fcContext EXCEPT ![form_name] = NoEntry]
               IN  IF popped["_active_form"] = FormNameEntry(form_name)
                     THEN [popped EXCEPT !["_active_form"] = NoEntry]
                     ELSE popped
    /\ UNCHANGED fcBuilt

\* the caller has the result
FCDone ==
    /\ fcPc = "returned"
    /\ fcPc' = "idle"
    /\ fcOp' = "none"
    /\ fcForm' = ""
    /\ fcData' = 0
    /\ fcRet' = "none"
    /\ fcBefore' = EmptyFormContext
    /\ UNCHANGED <<fcBuilt, fcContext>>

\* C23: update_form_context(s, f, {}) with an empty field map leaves
\* form_context[f] as it was, whether or not f had an entry (the timestamp
\* kept under _last_update aside).
C23_EmptyUpdateIsNoOp ==
    (fcPc = "returned" /\ fcOp = "update" /\ fcRet = "True" /\ fcData = 0
        /\ fcForm # "_last_update") =>
        fcContext[fcForm] = fcBefore[fcForm]

NextForm ==
    \/ FCCreate /\ UNCHANGED <<cbVars, tpVars, hmVars, msVars, rlVars, reqVars, pmVars, rsVars, arVars, evVars, wfVars, dtVars, smVars, mwVars>>
    \/ \E known \in BOOLEAN, form_name \in FormKeys, field_data \in 0..MaxFieldValue,
          now \in 1..MaxFormTime :
          FCUpdateFormContext(known, form_name, field_data, now) /\ UNCHANGED <<cbVars, tpVars, hmVars, msVars, rlVars, reqVars, pmVars, rsVars, arVars, evVars, wfVars, dtVars, smVars, mwVars>>
    \/ \E form_name \in FormKeys \cup {""} : FCClearFormContext(form_name) /\ UNCHANGED <<cbVars, tpVars, hmVars, msVars, rlVars, reqVars, pmVars, rsVars, arVars, evVars, wfVars, dtVars, smVars, mwVars>>
    \/ FCDone /\ UNCHANGED <<cbVars, tpVars, hmVars, msVars, rlVars, reqVars, pmVars, rsVars, arVars, evVars, wfVars, dtVars, smVars, mwVars>>

(***************************************************************************)
(* rate_limit_middleware (agent/middleware.py) over a RateLimiter          *)
(***************************************************************************)
ToolCalls == 1..NumToolCalls

\* function names: the identifiers other than 0 ("global")
ToolNames == Identifiers \ {0}

\* f"tool:{function_name}": never empty, so never the "global" identifier
ToolIdentifier(function_name) == function_name

MWUnbuilt ==
    /\ mwLimiter = FALSE
    /\ mwPc = [c \in ToolCalls |-> "idle"]
    /\ mwTool = [c \in ToolCalls |-> 0]
    /\ mwRan = [c \in ToolCalls |-> FALSE]
    /\ mwRecorded = [c \in ToolCalls |-> 0]
    /\ mwOps = 0

\* the middleware is bound to a rate_limiter (or to None) built from config
MWCreate(config, configured) ==
    /\ RLInit(config)
    /\ mwLimiter' = configured
    /\ UNCHANGED <<mwPc, mwTool, mwRan, mwRecorded, mwOps>>

\* rate_limit_middleware(context, next, rate_limiter) up to its first
\* suspension: check_limit(identifier=f"tool:{function_name}") raises, or
\* next(context) is entered
MWInvoke(c, function_name) ==
    /\ rlBuilt
    /\ mwPc[c] = "idle"
    /\ mwOps < MaxMWOps
    /\ mwOps' = mwOps + 1
    /\ mwTool' = [mwTool EXCEPT ![c] = function_name]
    /\ LET r == IF mwLimiter
                  THEN CheckLimit(ToolIdentifier(function_name), 0)
                  ELSE [result |-> "ok", minute |-> rlMinute, hour |-> rlHour]
       IN  /\ rlMinute' = r.minute
           /\ rlHour' = r.hour
           /\ mwPc' = [mwPc EXCEPT ![c] = IF r.result = "ok" THEN "tool" ELSE "rejected"]
           /\ mwRan' = [mwRan EXCEPT ![c] = (r.result = "ok")]
    /\ UNCHANGED <<rlBuilt, rlConfig, rlConcurrent, rlNow, rlTicks, rlOps, rlLast,
                   mwLimiter, mwRecorded>>

\* await next(context) has returned: record_request(identifier=f"tool:{function_name}")
MWToolReturned(c) ==
    /\ mwPc[c] = "tool"
    /\ mwPc' = [mwPc EXCEPT ![c] = "returned"]
    /\ IF mwLimiter
         THEN /\ rlMinute' = RecordRequest(rlMinute, ToolIdentifier(mwTool[c]), 0)
              /\ rlHour' = RecordRequest(rlHour, ToolIdentifier(mwTool[c]), 0)
              /\ mwRecorded' = [mwRecorded EXCEPT ![c] = IF rlConfig.enabled THEN @ + 1 ELSE @]
         ELSE UNCHANGED <<rlMinute, rlHour, mwRecorded>>
    /\ UNCHANGED <<rlBuilt, rlConfig, rlConcurrent, rlNow, rlTicks, rlOps, rlLast,
                   mwLimiter, mwTool, mwRan, mwOps>>

\* await next(context) has raised (the tool failed or the call was
\* cancelled): the exception leaves the middleware at line 233
MWToolRaised(c) ==
    /\ mwPc[c] = "tool"
    /\ mwPc' = [mwPc EXCEPT ![c] = "failed"]
    /\ UNCHANGED <<rlVars, mwLimiter, mwTool, mwRan, mwRecorded, mwOps>>

\* the caller has the result or the exception
MWDone(c) ==
    /\ mwPc[c] \in {"returned", "rejected", "failed"}
    /\ mwPc' = [mwPc EXCEPT ![c] = "idle"]
    /\ mwTool' = [mwTool EXCEPT ![c] = 0]
    /\ mwRan' = [mwRan EXCEPT ![c] = FALSE]
    /\ mwRecorded' = [mwRecorded EXCEPT ![c] = 0]
    /\ UNCHANGED <<rlVars, mwLimiter, mwOps>>

NextMW ==
    \/ \E config \in Configs, configured \in BOOLEAN :
          MWCreate(config, configured) /\ UNCHANGED <<cbVars, tpVars, hmVars, msVars, reqVars, pmVars, rsVars, arVars, evVars, wfVars, dtVars, smVars, fcVars>>
    \/ \E c \in ToolCalls, f \in ToolNames : MWInvoke(c, f) /\ UNCHANGED <<cbVars, tpVars, hmVars, msVars, reqVars, pmVars, rsVars, arVars, evVars, wfVars, dtVars, smVars, fcVars>>
    \/ \E c \in ToolCalls : MWToolReturned(c) /\ UNCHANGED <<cbVars, tpVars, hmVars, msVars, reqVars, pmVars, rsVars, arVars, evVars, wfVars, dtVars, smVars, fcVars>>
    \/ \E c \in ToolCalls : MWToolRaised(c) /\ UNCHANGED <<cbVars, tpVars, hmVars, msVars, reqVars, pmVars, rsVars, arVars, evVars, wfVars, dtVars, smVars, fcVars>>
    \/ \E c \in ToolCalls : MWDone(c) /\ UNCHANGED <<cbVars, tpVars, hmVars, msVars, reqVars, pmVars, rsVars, arVars, evVars, wfVars, dtVars, smVars, fcVars>>
    \/ \E d \in TickSteps : RLTick(d) /\ UNCHANGED mwVars /\ UNCHANGED <<cbVars, tpVars, hmVars, msVars, reqVars, pmVars, rsVars, arVars, evVars, wfVars, dtVars, smVars, fcVars>>

Init == CBUnbuilt /\ TPUnbuilt /\ HMUnbuilt /\ MSUnbuilt /\ RLUnbuilt /\ ReqUnbuilt /\ PMUnbuilt /\ RSUnbuilt /\ ARUnbuilt /\ EVUnbuilt /\ WFUnbuilt /\ DTUnbuilt /\ SMUnbuilt /\ FCUnbuilt /\ MWUnbuilt

(***************************************************************************)
(* D365MCPTool.call_tool over its CircuitBreaker: the request is call 1 of *)
(* the breaker and _execute_with_retry is the wrapped function             *)
(***************************************************************************)
\* the caller of the breaker that stands for call_tool
ToolCaller == CHOOSE p \in Callers : TRUE

\* D365MCPTool.__init__: CircuitBreaker(failure_threshold, recovery_timeout)
TBInit(th, max_retries) ==
    /\ CBInit(th, 1)
    /\ DTInit(max_retries)

\* call_tool: self._circuit_breaker.call(self._execute_with_retry, ...)
TBCallTool ==
    /\ DTCallTool(cbState = "open" /\ ~CBRecoveryElapsed)
    /\ CBEnter(ToolCaller)

\* the attempt returned: _execute_with_retry returns, the breaker's success
\* block runs
TBAttemptReturned ==
    /\ DTAttemptReturned
    /\ CBSucceed(ToolCaller)

\* the attempt raised HTTPStatusError: when _execute_with_retry raises it,
\* the breaker's except block runs
TBAttemptStatus(status_code) ==
    /\ DTAttemptStatus(status_code)
    /\ IF dtPc' = "done" THEN CBFail(ToolCaller) ELSE UNCHANGED cbVars

\* mutant: the breaker counts every failed attempt
TBAttemptTransientCounted ==
    /\ DTAttemptTransient
    /\ CBFail(ToolCaller)

\* the attempt raised a transient error: when _execute_with_retry raises
\* it, the breaker's except block runs
TBAttemptTransient ==
    /\ DTAttemptTransient
    /\ IF dtPc' = "done" THEN CBFail(ToolCaller) ELSE UNCHANGED cbVars

\* refresh_token is over: when it raised, the error leaves
\* _execute_with_retry and the breaker's except block runs
TBRefreshed(ok) ==
    /\ DTRefreshed(ok)
    /\ IF ok THEN UNCHANGED cbVars ELSE CBFail(ToolCaller)

\* C32: after all retries of a call_tool request are exhausted, the last
\* error propagates to the circuit breaker, which counts it: failure_count
\* rises by exactly 1 per failed call_tool request, not per attempt.
C32_OneFailurePerRequest ==
    [][ /\ (dtPc # "done" /\ dtPc' = "done"
              /\ dtOutcome' \notin {"result", "CircuitBreakerOpen"})
            => cbFailureCount' = cbFailureCount + 1
        /\ (dtPc \in {"attempting", "refreshing", "sleeping"} /\ dtPc' # "done")
            => cbFailureCount' = cbFailureCount
      ]_vars

\* C32 witness: a request has failed after max_retries + 1 attempts, with
\* the largest max_retries, and the breaker has counted one failure
C32_Witness ==
    /\ dtPc = "done"
    /\ dtOutcome = "ConnectionError"
    /\ dtMaxRetries = MaxRetries
    /\ dtAttempt = MaxRetries
    /\ cbFailureCount = 1
    /\ cbState = "closed"

NextToolCB ==
    \/ \E th \in 1..MaxThreshold, max_retries \in 0..MaxRetries :
          TBInit(th, max_retries) /\ UNCHANGED <<tpVars, hmVars, msVars, rlVars, reqVars, pmVars, rsVars, arVars, evVars, wfVars, smVars, fcVars, mwVars>>
    \/ TBCallTool /\ UNCHANGED <<tpVars, hmVars, msVars, rlVars, reqVars, pmVars, rsVars, arVars, evVars, wfVars, smVars, fcVars, mwVars>>
    \/ TBAttemptReturned /\ UNCHANGED <<tpVars, hmVars, msVars, rlVars, reqVars, pmVars, rsVars, arVars, evVars, wfVars, smVars, fcVars, mwVars>>
    \/ \E status_code \in StatusCodes : TBAttemptStatus(status_code) /\ UNCHANGED <<tpVars, hmVars, msVars, rlVars, reqVars, pmVars, rsVars, arVars, evVars, wfVars, smVars, fcVars, mwVars>>
    \/ TBAttemptTransient /\ UNCHANGED <<tpVars, hmVars, msVars, rlVars, reqVars, pmVars, rsVars, arVars, evVars, wfVars, smVars, fcVars, mwVars>>
    \/ \E ok \in BOOLEAN : TBRefreshed(ok) /\ UNCHANGED <<tpVars, hmVars, msVars, rlVars, reqVars, pmVars, rsVars, arVars, evVars, wfVars, smVars, fcVars, mwVars>>
    \/ DTSleepOver /\ UNCHANGED cbVars /\ UNCHANGED <<tpVars, hmVars, msVars, rlVars, reqVars, pmVars, rsVars, arVars, evVars, wfVars, smVars, fcVars, mwVars>>
    \/ DTDone /\ CBDone(ToolCaller) /\ UNCHANGED <<tpVars, hmVars, msVars, rlVars, reqVars, pmVars, rsVars, arVars, evVars, wfVars, smVars, fcVars, mwVars>>
    \/ CBTick /\ UNCHANGED dtVars /\ UNCHANGED <<tpVars, hmVars, msVars, rlVars, reqVars, pmVars, rsVars, arVars, evVars, wfVars, smVars, fcVars, mwVars>>

SpecToolCB == Init /\ [][NextToolCB]_vars

SpecCB == Init /\ [][NextCB]_vars

SpecTP == Init /\ [][NextTP]_vars

SpecThreads == Init /\ [][NextThreads]_vars

SpecHM == Init /\ [][NextHM]_vars

SpecMS == Init /\ [][NextMS]_vars

SpecRL == Init /\ [][NextRL]_vars

SpecReq == Init /\ [][NextReq]_vars

SpecMerge == Init /\ [][NextMerge]_vars

SpecRestore == Init /\ [][NextRestore]_vars

SpecAgent == Init /\ [][NextAgent]_vars

SpecEval == Init /\ [][NextEval]_vars

SpecWF == Init /\ [][NextWF]_vars

SpecTool == Init /\ [][NextTool]_vars

SpecSum == Init /\ [][NextSum]_vars

SpecForm == Init /\ [][NextForm]_vars

SpecMW == Init /\ [][NextMW]_vars

SpecSlots == Init /\ [][NextSlots]_vars

====
